---------------------------- MODULE Spec2Model ----------------------------
(***************************************************************************)
(* A model of one ringpop node (index.js, the RingPop facade) and of the   *)
(* collaborators it drives: Membership, Dissemination, HashRing, Gossip,   *)
(* Suspicion and the request proxy.  The facade is translated from         *)
(* index.js; the collaborators, whose code lives in lib/, are modelled     *)
(* from the specification of the system.  Peers, callers and the clock are *)
(* the environment: their inputs are drawn from small sets.                *)
(***************************************************************************)
EXTENDS Integers, Sequences, FiniteSets, TLC

(***************************************************************************)
(* Bounds of the model.                                                    *)
(***************************************************************************)
\* Incarnation numbers range over 1..MaxInc (wall-clock milliseconds in the
\* program).
MaxInc == 2

\* handleOrProxyAll is called with at most MaxKeys keys.
MaxKeys == 2

\* The factor k of the cap ceil(log2(N + 1)) * k on the number of times a
\* change is piggybacked.
PiggybackFactor == 1

\* At most MaxObserved changes reach the cluster from outside.
MaxObserved == 2

\* At most MaxRelays pings on behalf of inbound ping-reqs are in flight to
\* one target.
MaxRelays == 1

(***************************************************************************)
(* Addresses, apps, keys.                                                  *)
(***************************************************************************)
\* options.hostPort of the node under study (test/index-test.js uses
\* 127.0.0.1:3000 for the local node, :3001 and :3002 for peers); a third
\* peer gives a ping-req fan-out two helpers.
Local == "127.0.0.1:3000"

Remotes == {"127.0.0.1:3001", "127.0.0.1:3002", "127.0.0.1:3003"}

Addrs == {Local} \cup Remotes

\* options.app of the node, and the app of a foreign cluster.
LocalApp == "mars"

Apps == {LocalApp, "jupiter"}

Keys == {"k1", "k2", "k3"}

Status == {"alive", "suspect", "faulty", "leave", "damped"}

Incs == 1..MaxInc

\* A change as it travels in a protocol message or is built by a make*
\* wrapper.
Changes == [address : Addrs, status : Status, inc : Incs]

\* The members whose changes the membership specification exchanges.
MemberAddrs == {Local, "127.0.0.1:3001"}

MemberChanges == {c \in Changes : c.address \in MemberAddrs}

NoMember == [status |-> "none", inc |-> 0]

NoChange == [status |-> "none", inc |-> 0, piggybackCount |-> 0]

\* The body of a response: app, coordinator and membership of a join
\* response, changes (the addresses whose change it carries) of a ping or
\* ping-req response.
NoBody == [app |-> "", coordinator |-> "", membership |-> [a \in Addrs |-> NoMember],
           changes |-> {}]

VARIABLES
    members,        \* membership.members: address -> [status, inc]; "none" = unknown
    ring,           \* ring.servers: the set of addresses in the hash ring
    dissem,         \* dissemination.changes: address -> buffered change
    maxPiggybackCount, \* dissemination.maxPiggybackCount
    timers,         \* suspicion.timers: addresses with a running timer
    isStoppedAll,   \* suspicion.isStoppedAll
    gossipStopped,  \* gossip.isStopped
    joiner,         \* this.joiner: "null", "joining", "destroyed" or "done"
    threw,          \* an exception escaped a handler (the process is gone)
    events,         \* events emitted by the last operation: [changed, ringChanged,
                    \* ready, adjusted]
    op,             \* the last operation: [kind, arg, arg2, ret, body, sent, change,
                    \* batch, damp];
                    \* arg2 of an update tells whether the member was known
                    \* before and whether the local node refuted the change
    proxied,        \* requests handed to the request proxy by the last call
    hpa,            \* the handleOrProxyAll call in progress (its closure)
    isReady,        \* this.isReady
    destroyed,      \* this.destroyed
    bootstrapHosts, \* this.bootstrapHosts: [isArray, hosts]
    joinCb,         \* the callback the joiner holds: "none", "admin", "bootstrap"
    isPinging,      \* this.isPinging
    periods,        \* the closures of the pingMemberNow calls whose ping or
                    \* ping-req fan-out is outstanding, in call order
    relays,         \* target -> the pings in flight on behalf of inbound ping-reqs
    statsHooks,     \* this.statsHooks: name -> the hook registered under it
    cluster,        \* a cluster of nodes that gossip: [nodes, observed], nodes
                    \* giving each node's members, ring, dissem and
                    \* maxPiggybackCount, observed counting the changes that
                    \* reached the cluster from outside
    dampPending,    \* dampPending: the addresses with a pending damping subprotocol
    damps           \* the closures of the sendDampReq calls of which a send is
                    \* outstanding, the one the last operation ran in coming last

\* What bootstrap and destroy write, and what the failure detector writes.
lifecycle == <<isReady, destroyed, bootstrapHosts, joinCb>>

detector == <<isPinging, periods, relays>>

damping == <<dampPending, damps>>

vars == <<members, ring, dissem, maxPiggybackCount, timers, isStoppedAll, gossipStopped, joiner,
          threw, events, op, proxied, hpa, isReady, destroyed, bootstrapHosts,
          joinCb, isPinging, periods, relays, statsHooks, cluster, dampPending, damps>>

\* The closure of a handleOrProxyAll call: keys, keysByDest, dests, pending,
\* responses and cb of the code; cbGiven remembers that the caller passed a
\* callback, waiting holds the owners whose response has not arrived,
\* localCalls counts the calls of localHandler and cbCalls records each
\* invocation of cb.
NoCall == [keys |-> <<>>, keysByDest |-> [a \in Addrs |-> <<>>], dests |-> <<>>,
           pending |-> 0, responses |-> <<>>, cb |-> FALSE, cbGiven |-> FALSE,
           waiting |-> {}, localCalls |-> 0, cbCalls |-> <<>>]

\* this.bootstrapHosts before any bootstrap (undefined), and what a hosts
\* file that cannot be read leaves there (false).
NoHosts == [isArray |-> FALSE, hosts |-> <<>>]

\* The closure of a pingMemberNow call: phase "ping" while the ping to
\* target (member) is in flight, "pingReq" while the fan-out of sendPingReq
\* to others (otherMembers) is; waiting holds the helpers that have not
\* answered, reachable those that reported the target reachable, completed
\* and anySuccess are the variables of sendPingReq.
Period(target) == [phase |-> "ping", target |-> target, others |-> {},
                   waiting |-> {}, reachable |-> {}, completed |-> 0,
                   anySuccess |-> FALSE]

NoRelays == [a \in Remotes |-> 0]

\* The names stats hooks are registered under.  toString is a name every
\* object inherits a property for from Object.prototype; the empty name
\* stands for a hook without a name.
HookNames == {"myhook", "otherhook", "toString"}

InheritedNames == {"toString"}

\* The hook objects that carry these names.
HookIds == {"h1", "h2"}

\* this.statsHooks = {} (index.js 122)
NoHooks == [n \in HookNames |-> "undefined"]

\* The closure of a sendDampReq call for flappyMember: dampReqMembers,
\* errors, results and calledBack of the code (errors and results by the
\* dampReqMember of each entry); waiting holds the members whose send has
\* not called back, reported records each call of the callback.
DampReq(flappyMember, dampReqValue, suppressLimit, dampReqMembers) ==
    [member |-> flappyMember, dampReqValue |-> dampReqValue,
     suppressLimit |-> suppressLimit, dampReqMembers |-> dampReqMembers,
     waiting |-> dampReqMembers, errors |-> {}, results |-> {},
     calledBack |-> FALSE, reported |-> <<>>]

NoDamp == DampReq("", 0, 0, {})

NoEvents == [changed |-> 0, ringChanged |-> 0, ready |-> 0, adjusted |-> 0]

\* The closure of handleOrProxyAll reads nothing of the node once its
\* requests are dispatched: the model lets other operations run between
\* calls only, and they forget the finished call and its proxied requests.
Idle ==
    /\ hpa.waiting = {}
    /\ hpa' = NoCall
    /\ proxied' = <<>>

\* sent holds the kinds of the protocol messages the operation sent to peers,
\* change the change the failure detector fed to the membership, batch the
\* list the operation was given: the changes of an update or of a ping
\* response, the host list of a check; damp is the closure of sendDampReq as
\* the callback of a send found it.
Op(kind, arg, ret) ==
    [kind |-> kind, arg |-> arg, arg2 |-> "", ret |-> ret, body |-> NoBody,
     sent |-> {}, change |-> NoMember, batch |-> <<>>, damp |-> NoDamp]

(***************************************************************************)
(* Membership (lib/members): the member table and its reconciliation.      *)
(***************************************************************************)
\* status precedence alive < suspect < faulty = leave = damped
Precedence(s) == CASE s = "alive" -> 0
                   [] s = "suspect" -> 1
                   [] OTHER -> 2

Max(a, b) == IF a >= b THEN a ELSE b

hasLocalMember(m) == m[Local].status # "none"

\* The local node is told it is suspect or faulty at an incarnation that is
\* not older than its own: it refutes.
IsLocalOverride(L, c) ==
    /\ c.address = Local
    /\ c.status \in {"suspect", "faulty"}
    /\ c.inc >= L.inc

\* The rule that also accepts a change of the same incarnation number
\* whatever its status.
IsAccepted_notOlder(L, c) == c.inc >= L.inc

IsAccepted(L, c) ==
    \/ c.inc > L.inc
    \/ c.inc = L.inc /\ Precedence(c.status) > Precedence(L.status)

Updated(type, address, m) ==
    [type |-> type, address |-> address, status |-> m.status, inc |-> m.inc]

\* The type of the update for the first observation of a member: the member
\* is created with the status of the change; 'new' announces a member that
\* joins the servers, that is one first seen alive, and a member first seen
\* in another status is announced by that status.
FirstType(status) == IF status = "alive" THEN "new" ELSE status

\* One change reconciled against the table m: the new table and the update
\* it produced (none when the change is not accepted).
ApplyChange(m, c) ==
    LET L == m[c.address] IN
    IF L.status = "none"
    THEN LET n == [status |-> c.status, inc |-> c.inc] IN
         [members |-> [m EXCEPT ![c.address] = n],
          updates |-> <<Updated(FirstType(c.status), c.address, n)>>]
    ELSE IF IsLocalOverride(L, c)
    THEN LET n == [status |-> "alive", inc |-> Max(L.inc, c.inc) + 1] IN
         [members |-> [m EXCEPT ![c.address] = n],
          updates |-> <<Updated("alive", c.address, n)>>]
    ELSE IF IsAccepted(L, c)
    THEN LET n == [status |-> c.status, inc |-> c.inc] IN
         [members |-> [m EXCEPT ![c.address] = n],
          updates |-> <<Updated(c.status, c.address, n)>>]
    ELSE [members |-> m, updates |-> <<>>]

\* membership.update(changes): the changes reconciled in input order.
RECURSIVE MembershipUpdate(_, _)
MembershipUpdate(m, changes) ==
    IF changes = <<>>
    THEN [members |-> m, updates |-> <<>>]
    ELSE LET one == ApplyChange(m, Head(changes))
             rest == MembershipUpdate(one.members, Tail(changes))
         IN [members |-> rest.members, updates |-> one.updates \o rest.updates]

\* membership.computeChecksum(): the hash covers the sorted (address, status,
\* incarnationNumber) triples of the known members; the checksum is modelled
\* by what it covers.
computeChecksum(m) ==
    {<<a, m[a].status, m[a].inc>> : a \in {b \in Addrs : m[b].status # "none"}}

\* membership.getState(): the snapshot sent in a join response.
getState(m) == m

(***************************************************************************)
(* Hash ring (lib/ring): replica points on a circle of hash positions.     *)
(***************************************************************************)
\* The position the ring's hash function gives a key.
KeyHash(k) == CASE k = "k1" -> 2
                [] k = "k2" -> 5
                [] k = "k3" -> 15

\* The positions of a server's replica points.
ReplicaPoints(a) == CASE a = Local -> {1, 9}
                      [] a = "127.0.0.1:3001" -> {4, 12}
                      [] a = "127.0.0.1:3002" -> {6, 14}
                      [] a = "127.0.0.1:3003" -> {8, 16}

NoDest == "undefined"

RingPoints(r) == UNION {ReplicaPoints(a) : a \in r}

ServerAt(r, p) == CHOOSE a \in r : p \in ReplicaPoints(a)

\* ring.lookup(key): the server at the least position >= hash(key), wrapping
\* around to the least position; nothing on a ring without servers.
RingLookup(r, k) ==
    IF r = {} THEN NoDest
    ELSE LET pts == RingPoints(r)
             above == {p \in pts : p >= KeyHash(k)}
             least(S) == CHOOSE p \in S : \A q \in S : p <= q
         IN ServerAt(r, IF above # {} THEN least(above) ELSE least(pts))

(***************************************************************************)
(* index.js: onMembershipUpdated and its per-type handlers.  h is the part *)
(* of the node the handlers write: ring, dissem, timers, the ringChanged   *)
(* events of the ring, and whether a handler threw.                        *)
(***************************************************************************)
\* ring.addServer / ring.removeServer: idempotent, ringChanged only when the
\* server set changes.
addServer(h, a) ==
    IF a \in h.ring THEN h
    ELSE [h EXCEPT !.ring = @ \cup {a}, !.ringChanged = @ + 1]

removeServer(h, a) ==
    IF a \notin h.ring THEN h
    ELSE [h EXCEPT !.ring = @ \ {a}, !.ringChanged = @ + 1]

\* dissemination.addChange: the entry of the address is replaced.
addChange(h, u) ==
    [h EXCEPT !.dissem[u.address] =
        [status |-> u.status, inc |-> u.inc, piggybackCount |-> 0]]

\* suspicion.start / suspicion.stop: timers are for peers, and none is
\* started after stopAll() until reenable().
suspicionStart(h, a) ==
    IF h.isStoppedAll \/ a = Local THEN h ELSE [h EXCEPT !.timers = @ \cup {a}]

suspicionStop(h, a) == [h EXCEPT !.timers = @ \ {a}]

\* The handlers for alive, faulty, leave and suspect read
\* self.membership.localMember.address for their log line: without a local
\* member that read throws and the rest of the dispatch is skipped.
Throw(h) == [h EXCEPT !.threw = TRUE]

\* onAliveMember without its dissemination call.
onAliveMember_noChange(h, u, local) ==
    IF ~local THEN Throw(h)
    ELSE addServer(suspicionStop(h, u.address), u.address)

onAliveMember(h, u, local) ==
    IF ~local THEN Throw(h)
    ELSE addChange(addServer(suspicionStop(h, u.address), u.address), u)

\* onFaultyMember without its ring call.
onFaultyMember_keepsServer(h, u, local) ==
    IF ~local THEN Throw(h)
    ELSE addChange(suspicionStop(h, u.address), u)

\* onFaultyMember with the ring call of onAliveMember.
onFaultyMember_addsServer(h, u, local) ==
    IF ~local THEN Throw(h)
    ELSE addChange(addServer(suspicionStop(h, u.address), u.address), u)

onFaultyMember(h, u, local) ==
    IF ~local THEN Throw(h)
    ELSE addChange(removeServer(suspicionStop(h, u.address), u.address), u)

\* onLeaveMember without its ring call.
onLeaveMember_keepsServer(h, u, local) ==
    IF ~local THEN Throw(h)
    ELSE addChange(suspicionStop(h, u.address), u)

onLeaveMember(h, u, local) ==
    IF ~local THEN Throw(h)
    ELSE addChange(removeServer(suspicionStop(h, u.address), u.address), u)

onNewMember(h, u) == addChange(addServer(h, u.address), u)

\* onSuspectMember with the ring call of onFaultyMember.
onSuspectMember_removesServer(h, u, local) ==
    IF ~local THEN Throw(h)
    ELSE addChange(removeServer(suspicionStart(h, u.address), u.address), u)

onSuspectMember(h, u, local) ==
    IF ~local THEN Throw(h)
    ELSE addChange(suspicionStart(h, u.address), u)

\* updateHandlers[update.type], when there is one
updateHandler(h, u, local) ==
    CASE u.type = "alive" -> onAliveMember(h, u, local)
      [] u.type = "faulty" -> onFaultyMember(h, u, local)
      [] u.type = "leave" -> onLeaveMember(h, u, local)
      [] u.type = "new" -> onNewMember(h, u)
      [] u.type = "suspect" -> onSuspectMember(h, u, local)
      [] OTHER -> h

RECURSIVE forEachUpdate(_, _, _)
forEachUpdate(h, updates, local) ==
    IF updates = <<>> \/ h.threw THEN h
    ELSE forEachUpdate(updateHandler(h, Head(updates), local), Tail(updates), local)

\* onMembershipUpdated emitting 'changed' once per update.
onMembershipUpdated_emitsPerUpdate(h, updates, local) ==
    LET g == forEachUpdate(h, updates, local) IN
    [g EXCEPT !.changed = IF ~g.threw THEN Len(updates) ELSE 0]

\* The node after membership emitted 'updated' with these updates:
\* changed is 1 when the 'changed' event was emitted.
onMembershipUpdated(h, updates, local) ==
    LET g == forEachUpdate(h, updates, local) IN
    [g EXCEPT !.changed = IF ~g.threw /\ Len(updates) > 0 THEN 1 ELSE 0]

Handlers ==
    [ring |-> ring, dissem |-> dissem, timers |-> timers,
     isStoppedAll |-> isStoppedAll, ringChanged |-> 0, changed |-> 0,
     threw |-> FALSE]

\* The 'updated' listener run on the result r of a membership operation, and
\* the next values of everything the operation wrote.  hs is the
\* isStoppedAll flag the handlers see.
Emitted(r, hs) ==
    IF Len(r.updates) > 0
    THEN onMembershipUpdated([Handlers EXCEPT !.isStoppedAll = hs],
                             r.updates, hasLocalMember(r.members))
    ELSE [Handlers EXCEPT !.isStoppedAll = hs]

\* ceil(log2(n)) for n >= 1.
RECURSIVE ceilLog2(_)
ceilLog2(n) == IF n <= 1 THEN 0 ELSE ceilLog2((n + 1) \div 2) + 1

memberCount(m) == Cardinality({a \in Addrs : m[a].status # "none"})

\* The cap for a membership of memberCount(m) members.
computeMaxPiggybackCount(m) == ceilLog2(memberCount(m) + 1) * PiggybackFactor

\* Dissemination's listener of the membership: the cap is recomputed when
\* the updates bring a new member (test/index-test.js: a member first seen
\* alive adjusts it, a member first seen suspect does not).
adjustMaxPiggybackCount(r, h) ==
    IF ~h.threw /\ \E i \in 1..Len(r.updates) : r.updates[i].type = "new"
    THEN computeMaxPiggybackCount(r.members)
    ELSE maxPiggybackCount

\* The events of an operation whose membership result is r and whose
\* handlers left h: maxPiggybackCountAdjusted is emitted when the cap changed.
Events(r, h, ready) ==
    [changed |-> h.changed, ringChanged |-> h.ringChanged, ready |-> ready,
     adjusted |-> IF adjustMaxPiggybackCount(r, h) # maxPiggybackCount THEN 1 ELSE 0]

Written(r, h) ==
    /\ members' = r.members
    /\ ring' = h.ring
    /\ dissem' = h.dissem
    /\ maxPiggybackCount' = adjustMaxPiggybackCount(r, h)
    /\ threw' = h.threw
    /\ events' = Events(r, h, 0)

\* The addresses with a buffered change.
Buffered(d) == {a \in Addrs : d[a].status # "none"}

\* The batches getChanges may pick from buffer d under the cap: as many
\* entries as the cap allows, least piggybacked first; the order among
\* entries of equal piggybackCount is not determined.  No entry is skipped
\* for its source: addChange is given no source (index.js 526-531).
Batches(d, cap) ==
    LET n == IF cap <= Cardinality(Buffered(d)) THEN cap ELSE Cardinality(Buffered(d))
    IN {S \in SUBSET Buffered(d) :
          /\ Cardinality(S) = n
          /\ \A a \in S, b \in Buffered(d) \ S :
                d[a].piggybackCount <= d[b].piggybackCount}

\* dissemination.getChanges(checksum, source) when the batch picked is S;
\* same tells whether the peer's checksum equals the local one.  Each
\* returned entry is piggybacked once more and leaves the buffer when its
\* piggybackCount reaches the cap.
getChanges(d, cap, same, S) ==
    IF same THEN [dissem |-> d, changes |-> {}]
    ELSE [dissem |-> [a \in Addrs |->
                        IF a \notin S THEN d[a]
                        ELSE IF d[a].piggybackCount + 1 >= cap THEN NoChange
                        ELSE [d[a] EXCEPT !.piggybackCount = @ + 1]],
          changes |-> S]

issueMembershipChanges_bufferAsIs(d, cap, same, S) ==
    [dissem |-> d, changes |-> IF same THEN {} ELSE S]

\* issueMembershipChanges(checksum, source)
issueMembershipChanges(d, cap, same, S) == getChanges(d, cap, same, S)

\* The nodes of the cluster, which stay up, and the member the changes from
\* outside are about: a peer that left or stopped answering.
ClusterNodes == {Local, "127.0.0.1:3001"}

Subject == "127.0.0.1:3002"

\* The cluster after its bootstrap: every node has every member alive, in
\* its ring, and nothing left to disseminate.
BootedView ==
    [a \in Addrs |-> IF a \in ClusterNodes \cup {Subject}
                     THEN [status |-> "alive", inc |-> 1] ELSE NoMember]

BootedCluster ==
    [nodes |-> [n \in ClusterNodes |->
                  [members |-> BootedView, ring |-> ClusterNodes \cup {Subject},
                   dissem |-> [a \in Addrs |-> NoChange],
                   maxPiggybackCount |-> computeMaxPiggybackCount(BootedView)]],
     observed |-> 0]

\* No incarnation number leaves the modelled range.
InRange(m) == \A a \in Addrs : m[a].inc <= MaxInc

(***************************************************************************)
(* Initial state: a constructed node (index.js, function RingPop).         *)
(***************************************************************************)
Init ==
    /\ members = [a \in Addrs |-> NoMember]
    /\ ring = {}
    /\ dissem = [a \in Addrs |-> NoChange]
    /\ maxPiggybackCount = computeMaxPiggybackCount([a \in Addrs |-> NoMember])
    /\ timers = {}
    /\ isStoppedAll = FALSE
    /\ gossipStopped = TRUE
    /\ joiner = "null"
    /\ threw = FALSE
    /\ events = NoEvents
    /\ op = Op("new", "", "")
    /\ proxied = <<>>
    /\ hpa = NoCall
    /\ isReady = FALSE
    /\ destroyed = FALSE
    /\ bootstrapHosts = NoHosts
    /\ joinCb = "none"
    /\ isPinging = FALSE
    /\ periods = <<>>
    /\ relays = NoRelays
    /\ statsHooks = NoHooks
    /\ cluster = BootedCluster
    /\ dampPending = {}
    /\ damps = <<>>

(***************************************************************************)
(* Operations.                                                             *)
(***************************************************************************)
\* membership.update([c]) reaching the node: a make* wrapper, the changes of
\* a ping, of a ping response or of the admin member handler.
Update(c) ==
    /\ ~threw
    /\ Idle
    /\ LET r == MembershipUpdate(members, <<c>>)
           h == Emitted(r, isStoppedAll)
       IN /\ InRange(r.members)
          /\ Written(r, h)
          /\ timers' = h.timers
          /\ op' = [Op("update", "", IF h.threw THEN "TypeError" ELSE "ok")
                      EXCEPT !.arg2 = IF members[c.address].status = "none"
                                      THEN "first"
                                      ELSE IF IsLocalOverride(members[c.address], c)
                                      THEN "refuted" ELSE "known"]
    /\ UNCHANGED <<damping, cluster, statsHooks, isStoppedAll, gossipStopped, joiner, lifecycle, detector>>

\* membership.update(changes) with a batch of changes: the batch is
\* reconciled in input order, then the listener runs once on the updates.
UpdateBatch(changes) ==
    /\ ~threw
    /\ Idle
    /\ LET r == MembershipUpdate(members, changes)
           h == Emitted(r, isStoppedAll)
       IN /\ InRange(r.members)
          /\ Written(r, h)
          /\ timers' = h.timers
          /\ op' = [Op("updateBatch", "", IF h.threw THEN "TypeError" ELSE "ok")
                      EXCEPT !.batch = changes]
    /\ UNCHANGED <<damping, cluster, statsHooks, isStoppedAll, gossipStopped, joiner, lifecycle, detector>>

\* membership.addMember(member): an idempotent insert; a member that was not
\* known is inserted alive and reported as a 'new' update.
addMember(m, address, inc) ==
    IF m[address].status # "none"
    THEN [members |-> m, updates |-> <<>>]
    ELSE LET n == [status |-> "alive", inc |-> inc] IN
         [members |-> [m EXCEPT ![address] = n],
          updates |-> <<Updated("new", address, n)>>]

\* membership.makeLeave() and membership.makeAlive() as adminLeave and rejoin
\* call them: a change about the local member, leave at its incarnation
\* number, alive at the incarnation number now of the clock.
makeLeave(m) ==
    MembershipUpdate(m, <<[address |-> Local, status |-> "leave", inc |-> m[Local].inc]>>)

makeAlive(m, now) ==
    MembershipUpdate(m, <<[address |-> Local, status |-> "alive", inc |-> now]>>)

\* addLocalMember(info): the incarnation number is info.incarnationNumber or
\* the clock's.
AddLocalMember(inc) ==
    /\ ~threw
    /\ Idle
    /\ LET r == addMember(members, Local, inc)
           h == Emitted(r, isStoppedAll)
       IN /\ Written(r, h)
          /\ timers' = h.timers
    /\ op' = Op("addLocalMember", "", "ok")
    /\ UNCHANGED <<damping, cluster, statsHooks, isStoppedAll, gossipStopped, joiner, lifecycle, detector>>

\* protocolJoin that adds the joiner before it validates the request.
protocolJoin_addsFirst(source, app, inc) ==
    IF source = Local
    THEN [err |-> "invalid-join.source", r |-> addMember(members, source, inc)]
    ELSE IF app # LocalApp
    THEN [err |-> "invalid-join.app", r |-> addMember(members, source, inc)]
    ELSE [err |-> "null", r |-> addMember(members, source, inc)]

\* protocolJoin(options, callback): the join request of a peer.
protocolJoin(source, app, inc) ==
    IF source = Local
    THEN [err |-> "invalid-join.source", r |-> [members |-> members, updates |-> <<>>]]
    ELSE IF app # LocalApp
    THEN [err |-> "invalid-join.app", r |-> [members |-> members, updates |-> <<>>]]
    ELSE [err |-> "null", r |-> addMember(members, source, inc)]

ProtocolJoin(source, app, inc) ==
    /\ ~threw
    /\ Idle
    /\ LET j == protocolJoin(source, app, inc)
           h == Emitted(j.r, isStoppedAll)
       IN /\ Written(j.r, h)
          /\ timers' = h.timers
          /\ op' = [kind |-> "protocolJoin", arg |-> source, arg2 |-> app, ret |-> j.err,
                    body |-> IF j.err = "null"
                             THEN [app |-> LocalApp, coordinator |-> Local,
                                   membership |-> getState(j.r.members),
                                   changes |-> {}]
                             ELSE NoBody,
                    sent |-> {}, change |-> NoMember, batch |-> <<>>, damp |-> NoDamp]
    /\ UNCHANGED <<damping, cluster, statsHooks, isStoppedAll, gossipStopped, joiner, lifecycle, detector>>

\* adminLeave without the check for a redundant leave.
AdminLeave_noRedundantCheck ==
    /\ ~threw
    /\ Idle
    /\ IF ~hasLocalMember(members)
       THEN /\ op' = Op("adminLeave", "", "invalid-local-member")
            /\ events' = NoEvents
            /\ UNCHANGED <<members, ring, dissem, maxPiggybackCount, timers, isStoppedAll, gossipStopped, threw>>
       ELSE LET r == makeLeave(members)
                h == Emitted(r, isStoppedAll)
            IN /\ Written(r, h)
               /\ gossipStopped' = TRUE
               /\ timers' = {}
               /\ isStoppedAll' = TRUE
               /\ op' = Op("adminLeave", "", "ok")
    /\ UNCHANGED <<damping, cluster, statsHooks, joiner, lifecycle, detector>>

\* adminLeave(callback)
AdminLeave ==
    /\ ~threw
    /\ Idle
    /\ IF ~hasLocalMember(members)
       THEN /\ op' = Op("adminLeave", "", "invalid-local-member")
            /\ events' = NoEvents
            /\ UNCHANGED <<members, ring, dissem, maxPiggybackCount, timers, isStoppedAll, gossipStopped, threw>>
       ELSE IF members[Local].status = "leave"
       THEN /\ op' = Op("adminLeave", "", "invalid-leave.redundant")
            /\ events' = NoEvents
            /\ UNCHANGED <<members, ring, dissem, maxPiggybackCount, timers, isStoppedAll, gossipStopped, threw>>
       ELSE LET r == makeLeave(members)
                h == Emitted(r, isStoppedAll)
            IN /\ Written(r, h)
               /\ gossipStopped' = TRUE            \* gossip.stop()
               /\ timers' = {}                     \* suspicion.stopAll()
               /\ isStoppedAll' = TRUE
               /\ op' = Op("adminLeave", "", "ok")
    /\ UNCHANGED <<damping, cluster, statsHooks, joiner, lifecycle, detector>>

\* rejoin without membership.makeAlive().
rejoin_noMakeAlive(now) ==
    /\ events' = NoEvents
    /\ gossipStopped' = FALSE
    /\ isStoppedAll' = FALSE
    /\ UNCHANGED <<damping, cluster, statsHooks, members, ring, dissem, maxPiggybackCount, threw, timers>>

\* rejoin without suspicion.reenable().
rejoin_noReenable(now) ==
    LET r == makeAlive(members, now)
        h == Emitted(r, isStoppedAll)
    IN /\ Written(r, h)
       /\ timers' = h.timers
       /\ gossipStopped' = FALSE
       /\ UNCHANGED isStoppedAll

\* rejoin(callback): the writes of the rejoin of a node that left.
rejoin(now) ==
    LET r == makeAlive(members, now)
        h == Emitted(r, isStoppedAll)
    IN /\ Written(r, h)
       /\ timers' = h.timers
       /\ gossipStopped' = FALSE                   \* gossip.start()
       /\ isStoppedAll' = FALSE                    \* suspicion.reenable()

\* adminJoin without the check for the local member: the joiner is created.
AdminJoin_noLocalCheck(now) ==
    /\ ~threw
    /\ Idle
    /\ IF members[Local].status = "leave"
       THEN /\ now > members[Local].inc
            /\ rejoin(now)
            /\ op' = Op("adminJoin", "", "rejoined")
            /\ UNCHANGED <<joiner, joinCb>>
       ELSE /\ joiner' = "joining"
            /\ joinCb' = "admin"
            /\ op' = [Op("adminJoin", "", "") EXCEPT !.sent = {"join"}]
            /\ events' = NoEvents
            /\ UNCHANGED <<members, ring, dissem, maxPiggybackCount, timers, isStoppedAll, gossipStopped, threw>>
    /\ UNCHANGED <<damping, cluster, statsHooks, isReady, destroyed, bootstrapHosts, detector>>

\* adminJoin(target, callback); now is the clock's reading.
AdminJoin(now) ==
    /\ ~threw
    /\ Idle
    /\ IF ~hasLocalMember(members)
       THEN /\ op' = Op("adminJoin", "", "invalid-local-member")
            /\ events' = NoEvents
            /\ UNCHANGED <<members, ring, dissem, maxPiggybackCount, timers, isStoppedAll, gossipStopped,
                           threw, joiner, joinCb>>
       ELSE IF members[Local].status = "leave"
       THEN /\ now > members[Local].inc
            /\ rejoin(now)
            /\ op' = Op("adminJoin", "", "rejoined")
            /\ UNCHANGED <<joiner, joinCb>>
       ELSE /\ joiner' = "joining"                 \* new AdminJoiner(...).sendJoin()
            /\ joinCb' = "admin"
            /\ op' = [Op("adminJoin", "", "") EXCEPT !.sent = {"join"}]
            /\ events' = NoEvents
            /\ UNCHANGED <<members, ring, dissem, maxPiggybackCount, timers, isStoppedAll, gossipStopped, threw>>
    /\ UNCHANGED <<damping, cluster, statsHooks, isReady, destroyed, bootstrapHosts, detector>>

(***************************************************************************)
(* Lifecycle: bootstrap, the completion of a join, destroy.                *)
(***************************************************************************)
\* seedBootstrapHosts(file): the array the caller gave, or what the hosts
\* files yield; seed is that value.
seedBootstrapHosts(seed) == seed

\* The check of the seed list without the check of its length.
hasBootstrapHosts_anyArray(b) == b.isArray

\* Array.isArray(self.bootstrapHosts) && self.bootstrapHosts.length > 0
hasBootstrapHosts(b) == b.isArray /\ Len(b.hosts) > 0

\* The seed lists a bootstrap is given.
SeedLists == {NoHosts,
              [isArray |-> TRUE, hosts |-> <<>>],
              [isArray |-> TRUE, hosts |-> <<"127.0.0.1:3001">>],
              [isArray |-> TRUE, hosts |-> <<Local, "127.0.0.1:3001">>]}

\* bootstrap(bootstrapFile, callback); now is the clock's reading.  Its
\* adminJoin call passes one function, which adminJoin takes for the target:
\* the joiner sorts that out, the rejoin branch calls an undefined callback.
Bootstrap(seed, now) ==
    /\ ~threw
    /\ Idle
    /\ IF isReady
       THEN /\ op' = Op("bootstrap", "", "AlreadyReadyError")
            /\ events' = NoEvents
            /\ UNCHANGED <<members, ring, dissem, maxPiggybackCount, timers, isStoppedAll, gossipStopped,
                           threw, joiner, joinCb, bootstrapHosts>>
       ELSE /\ bootstrapHosts' = seedBootstrapHosts(seed)
            /\ IF ~hasBootstrapHosts(seedBootstrapHosts(seed))
               THEN /\ op' = Op("bootstrap", "", "BootstrapNoHostsError")
                    /\ events' = NoEvents
                    /\ UNCHANGED <<members, ring, dissem, maxPiggybackCount, timers, isStoppedAll,
                                   gossipStopped, threw, joiner, joinCb>>
               ELSE IF members[Local].status = "leave"
               THEN LET r == makeAlive(members, now)
                        h == Emitted(r, isStoppedAll)
                    IN /\ now > members[Local].inc
                       /\ members' = r.members
                       /\ ring' = h.ring
                       /\ dissem' = h.dissem
                       /\ maxPiggybackCount' = adjustMaxPiggybackCount(r, h)
                       /\ timers' = h.timers
                       /\ events' = Events(r, h, 0)
                       /\ gossipStopped' = FALSE
                       /\ isStoppedAll' = FALSE
                       /\ threw' = TRUE
                       /\ op' = Op("bootstrap", "", "TypeError")
                       /\ UNCHANGED <<joiner, joinCb>>
               ELSE LET r == addMember(members, Local, now)
                        h == Emitted(r, isStoppedAll)
                    IN /\ Written(r, h)
                       /\ timers' = h.timers
                       /\ joiner' = "joining"
                       /\ joinCb' = "bootstrap"
                       /\ op' = [Op("bootstrap", "", "") EXCEPT !.sent = {"join"}]
                       /\ UNCHANGED <<isStoppedAll, gossipStopped>>
    /\ UNCHANGED <<damping, cluster, statsHooks, isReady, destroyed, detector>>

\* The memberships a join merges from the responses of the seeds.
JoinChanges ==
    {<<>>,
     <<[address |-> "127.0.0.1:3001", status |-> "alive", inc |-> 1]>>,
     <<[address |-> "127.0.0.1:3001", status |-> "alive", inc |-> 1],
       [address |-> "127.0.0.1:3002", status |-> "alive", inc |-> 1]>>,
     <<[address |-> "127.0.0.1:3001", status |-> "alive", inc |-> 1],
       [address |-> "127.0.0.1:3002", status |-> "alive", inc |-> 1],
       [address |-> "127.0.0.1:3003", status |-> "alive", inc |-> 1]>>}

\* The callback bootstrap passes to adminJoin: what it reports.
bootstrapResult(err, isDestroyed) ==
    IF err THEN "BootstrapJoinFailedError"
    ELSE IF isDestroyed THEN "BootstrapDestroyedDuringError"
    ELSE "ready"

\* The join of the joiner ends: without error after the memberships of the
\* responses were merged, or with an error; a joiner that was destroyed
\* still reports.  Then the callback it holds runs.
JoinDone(err, changes) ==
    /\ ~threw
    /\ Idle
    /\ joiner \in {"joining", "destroyed"}
    /\ joinCb # "none"
    /\ LET r == IF err THEN [members |-> members, updates |-> <<>>]
                ELSE MembershipUpdate(members, changes)
           h == Emitted(r, isStoppedAll)
           res == IF joinCb = "bootstrap" THEN bootstrapResult(err, destroyed)
                  ELSE IF err THEN "join-failed" ELSE "joined"
           ready == ~h.threw /\ joinCb = "bootstrap" /\ res = "ready"
       IN /\ InRange(r.members)
          /\ members' = r.members
          /\ ring' = h.ring
          /\ dissem' = h.dissem
          /\ maxPiggybackCount' = adjustMaxPiggybackCount(r, h)
          /\ timers' = h.timers
          /\ threw' = h.threw
          /\ events' = Events(r, h, IF ready THEN 1 ELSE 0)
          /\ gossipStopped' = IF ready THEN FALSE ELSE gossipStopped
          /\ isReady' = IF ready THEN TRUE ELSE isReady
          /\ op' = [Op("joinDone", joinCb, IF h.threw THEN "TypeError" ELSE res)
                      EXCEPT !.arg2 = IF destroyed THEN "destroyed" ELSE ""]
    /\ joiner' = "done"
    /\ joinCb' = "none"
    /\ UNCHANGED <<damping, cluster, statsHooks, isStoppedAll, destroyed, bootstrapHosts, detector>>

\* destroy()
Destroy ==
    /\ ~threw
    /\ Idle
    /\ destroyed' = TRUE
    /\ gossipStopped' = TRUE                        \* gossip.stop()
    /\ timers' = {}                                 \* suspicion.stopAll()
    /\ isStoppedAll' = TRUE
    /\ joiner' = IF joiner = "joining" THEN "destroyed" ELSE joiner
    /\ op' = Op("destroy", "", "")
    /\ events' = NoEvents
    /\ UNCHANGED <<damping, cluster, statsHooks, members, ring, dissem, maxPiggybackCount, threw, isReady, bootstrapHosts, joinCb,
                   detector>>

(***************************************************************************)
(* Suspicion (lib/suspicion): the timer of a suspect peer fires.           *)
(***************************************************************************)
\* The timer of a is one-shot; a peer that is still suspect is declared
\* faulty at its incarnation number through membership.update.
SuspicionTimeout(a) ==
    /\ ~threw
    /\ Idle
    /\ a \in timers
    /\ LET r == IF members[a].status = "suspect"
                THEN MembershipUpdate(members,
                        <<[address |-> a, status |-> "faulty", inc |-> members[a].inc]>>)
                ELSE [members |-> members, updates |-> <<>>]
           fired == [Handlers EXCEPT !.timers = timers \ {a}]
           h == IF Len(r.updates) > 0
                THEN onMembershipUpdated(fired, r.updates, hasLocalMember(r.members))
                ELSE fired
       IN /\ Written(r, h)
          /\ timers' = h.timers
          /\ op' = Op("suspicionTimeout", a, IF h.threw THEN "TypeError" ELSE "ok")
    /\ UNCHANGED <<damping, cluster, statsHooks, isStoppedAll, gossipStopped, joiner, lifecycle, detector>>

(***************************************************************************)
(* The bootstrap checks of the host list (index.js).  A host/port is a     *)
(* sequence of characters.                                                 *)
(***************************************************************************)
Digits == {"0", "1", "2", "3", "4", "5", "6", "7", "8", "9"}

\* The elements of /^(\d+.\d+.\d+.\d+):\d+$/: "d" is \d+, "." any one
\* character, ":" the colon.
PatternElements == <<"d", ".", "d", ".", "d", ".", "d", ":", "d">>

\* The pattern from its k-th element on matches s from position pos to its end.
RECURSIVE MatchFrom(_, _, _)
MatchFrom(s, pos, k) ==
    IF k > Len(PatternElements) THEN pos = Len(s) + 1
    ELSE IF PatternElements[k] = "d"
    THEN \E n \in 1..(Len(s) - pos + 1) :
            /\ \A i \in pos..(pos + n - 1) : s[i] \in Digits
            /\ MatchFrom(s, pos + n, k + 1)
    ELSE IF PatternElements[k] = "."
    THEN pos <= Len(s) /\ MatchFrom(s, pos + 1, k + 1)
    ELSE pos <= Len(s) /\ s[pos] = ":" /\ MatchFrom(s, pos + 1, k + 1)

\* HOST_PORT_PATTERN.test(host)
HOST_PORT_PATTERN(host) == MatchFrom(host, 1, 1)

\* The host/ports of the check: two IP addresses, two host names, and a
\* host name made of digits and letters that the pattern takes for an IP
\* address.
KinHosts ==
    {<<"1", ".", "2", ".", "3", ".", "4", ":", "8">>,
     <<"1", ".", "2", ".", "3", ".", "5", ":", "8">>,
     <<"a", ":", "8">>,
     <<"b", ".", "c", ":", "8">>,
     <<"1", "a", "2", "b", "3", "c", "4", ":", "8">>}

\* The host list holds at most MaxHosts hosts.
MaxHosts == 2

KinHostLists == UNION {[1..n -> KinHosts] : n \in 0..MaxHosts}

\* checkForHostnameIpMismatch() on a node whose hostPort and bootstrapHosts
\* are these: false when it warned.
checkForHostnameIpMismatch(hostPort, hosts) ==
    LET wanted == HOST_PORT_PATTERN(hostPort)
        mismatchedHosts == SelectSeq(hosts, LAMBDA host : HOST_PORT_PATTERN(host) = wanted)
    IN ~(Len(mismatchedHosts) > 0)

CheckForHostnameIpMismatch(hostPort, hosts) ==
    /\ ~threw
    /\ Idle
    /\ op' = [Op("checkForHostnameIpMismatch", hostPort,
                 IF checkForHostnameIpMismatch(hostPort, hosts) THEN "true" ELSE "false")
                EXCEPT !.batch = hosts]
    /\ events' = NoEvents
    /\ UNCHANGED <<damping, cluster, statsHooks, members, ring, dissem, maxPiggybackCount, timers, isStoppedAll,
                   gossipStopped, joiner, threw, lifecycle, detector>>

(***************************************************************************)
(* Failure detector: pingMemberNow, sendPingReq, protocolPingReq.  The     *)
(* member iterator, the ping and ping-req senders and the selection of the *)
(* helpers live in lib/.                                                   *)
(***************************************************************************)
\* this.pingReqSize
pingReqSize == 3

\* The members the iterator hands out: not the local one, not faulty, leave
\* or damped.
isPingable(m, a) == a # Local /\ m[a].status \in {"alive", "suspect"}

Min(a, b) == IF a <= b THEN a ELSE b

\* membership.getRandomPingableMembers(n, excluding): the samples it may
\* return, each of n alive members other than the local and the excluded
\* ones, or of all of them when they are fewer.
getRandomPingableMembers(m, n, excluding) ==
    LET candidates == {a \in Addrs : /\ a # Local
                                     /\ m[a].status = "alive"
                                     /\ a \notin excluding}
    IN {S \in SUBSET candidates : Cardinality(S) = Min(n, Cardinality(candidates))}

\* The changes a ping response or a ping-req response carries.
PingChanges == {c \in Changes : c.address = "127.0.0.1:3001" /\ c.status = "alive"}

PingBodies == {<<>>} \cup {<<c>> : c \in PingChanges}

Remove(q, i) == SubSeq(q, 1, i - 1) \o SubSeq(q, i + 1, Len(q))

\* membership.update(changes) after an earlier update of the same handler
\* left the table m and the handler state h.
ThenUpdate(m, h, changes) ==
    LET r == MembershipUpdate(m, changes)
        g == IF h.threw \/ Len(r.updates) = 0 THEN h
             ELSE onMembershipUpdated(h, r.updates, hasLocalMember(r.members))
    IN [members |-> IF h.threw THEN m ELSE r.members,
        updates |-> IF h.threw THEN <<>> ELSE r.updates,
        h |-> [g EXCEPT !.changed = Max(h.changed, g.changed)]]

\* pingMemberNow that does not test isPinging.
PingMemberNow_noGuard(target) ==
    /\ ~threw
    /\ Idle
    /\ IF ~isReady
       THEN /\ op' = Op("pingMemberNow", "", "not-ready")
            /\ UNCHANGED detector
       ELSE IF \A a \in Addrs : ~isPingable(members, a)
       THEN /\ op' = Op("pingMemberNow", "", "no-members")
            /\ UNCHANGED detector
       ELSE /\ isPingable(members, target)
            /\ isPinging' = TRUE
            /\ periods' = Append(periods, Period(target))
            /\ op' = [Op("pingMemberNow", target, "") EXCEPT !.sent = {"ping"}]
            /\ UNCHANGED relays
    /\ events' = NoEvents
    /\ UNCHANGED <<damping, cluster, statsHooks, members, ring, dissem, maxPiggybackCount, timers, isStoppedAll, gossipStopped,
                   joiner, threw, lifecycle>>

\* pingMemberNow(callback); target is what memberIterator.next() hands out.
PingMemberNow(target) ==
    /\ ~threw
    /\ Idle
    /\ IF isPinging
       THEN /\ op' = Op("pingMemberNow", "", "in-progress")
            /\ UNCHANGED detector
       ELSE IF ~isReady
       THEN /\ op' = Op("pingMemberNow", "", "not-ready")
            /\ UNCHANGED detector
       ELSE IF \A a \in Addrs : ~isPingable(members, a)
       THEN /\ op' = Op("pingMemberNow", "", "no-members")
            /\ UNCHANGED detector
       ELSE /\ isPingable(members, target)
            /\ isPinging' = TRUE
            /\ periods' = Append(periods, Period(target))
            /\ op' = [Op("pingMemberNow", target, "") EXCEPT !.sent = {"ping"}]
            /\ UNCHANGED relays
    /\ events' = NoEvents
    /\ UNCHANGED <<damping, cluster, statsHooks, members, ring, dissem, maxPiggybackCount, timers, isStoppedAll, gossipStopped,
                   joiner, threw, lifecycle>>

\* sendPingReq that, without a helper, returns without calling back.
sendPingReq_keepsGuard(i) ==
    \E others \in getRandomPingableMembers(members, pingReqSize,
                                           {periods[i].target}) :
        IF Cardinality(others) > 0
        THEN /\ periods' = [periods EXCEPT ![i] =
                               [@ EXCEPT !.phase = "pingReq", !.others = others,
                                         !.waiting = others]]
             /\ op' = [Op("pingDone", periods[i].target, "") EXCEPT !.sent = {"ping-req"}]
             /\ UNCHANGED isPinging
        ELSE /\ periods' = Remove(periods, i)
             /\ UNCHANGED isPinging
             /\ op' = Op("pingDone", periods[i].target, "No members to ping-req")

\* sendPingReq(unreachableMember, callback) for period i: the fan-out to
\* the helpers, or the callback with an error when there is none.  The
\* callback of pingMemberNow resets isPinging.
sendPingReq(i) ==
    \E others \in getRandomPingableMembers(members, pingReqSize,
                                           {periods[i].target}) :
        IF Cardinality(others) > 0
        THEN /\ periods' = [periods EXCEPT ![i] =
                               [@ EXCEPT !.phase = "pingReq", !.others = others,
                                         !.waiting = others]]
             /\ op' = [Op("pingDone", periods[i].target, "") EXCEPT !.sent = {"ping-req"}]
             /\ UNCHANGED isPinging
        ELSE /\ periods' = Remove(periods, i)
             /\ isPinging' = FALSE
             /\ op' = [Op("pingDone", periods[i].target, "No members to ping-req")
                         EXCEPT !.arg2 = "released"]

\* The callback of sendPing that resets isPinging after the ping-req only.
PingDone_keepsGuard(i, isOk, changes) ==
    /\ ~threw
    /\ Idle
    /\ i \in 1..Len(periods)
    /\ periods[i].phase = "ping"
    /\ IF isOk
       THEN LET r == MembershipUpdate(members, changes)
                h == Emitted(r, isStoppedAll)
            IN /\ InRange(r.members)
               /\ Written(r, h)
               /\ timers' = h.timers
               /\ UNCHANGED isPinging
               /\ periods' = Remove(periods, i)
               /\ op' = [Op("pingDone", periods[i].target,
                            IF h.threw THEN "TypeError" ELSE "ok")
                           EXCEPT !.batch = changes,
                                  !.arg2 = IF h.threw THEN "" ELSE "guarded"]
       ELSE /\ changes = <<>>
            /\ events' = NoEvents
            /\ UNCHANGED <<members, ring, dissem, maxPiggybackCount, timers, threw>>
            /\ IF destroyed
               THEN /\ periods' = Remove(periods, i)
                    /\ op' = Op("pingDone", periods[i].target, "destroyed whilst pinging")
                    /\ UNCHANGED isPinging
               ELSE sendPingReq(i)
    /\ UNCHANGED <<damping, cluster, statsHooks, isStoppedAll, gossipStopped, joiner, lifecycle, relays>>

\* The callback pingMemberNow gives sendPing runs for period i.  batch is
\* the changes of the response, arg2 tells whether isPinging was reset
\* ("released") or still set ("guarded") when the callback of the period
\* was called.
PingDone(i, isOk, changes) ==
    /\ ~threw
    /\ Idle
    /\ i \in 1..Len(periods)
    /\ periods[i].phase = "ping"
    /\ IF isOk
       THEN LET r == MembershipUpdate(members, changes)
                h == Emitted(r, isStoppedAll)
            IN /\ InRange(r.members)
               /\ Written(r, h)
               /\ timers' = h.timers
               /\ isPinging' = FALSE
               /\ periods' = Remove(periods, i)
               /\ op' = [Op("pingDone", periods[i].target,
                            IF h.threw THEN "TypeError" ELSE "ok")
                           EXCEPT !.batch = changes,
                                  !.arg2 = IF h.threw THEN "" ELSE "released"]
       ELSE /\ changes = <<>>
            /\ events' = NoEvents
            /\ UNCHANGED <<members, ring, dissem, maxPiggybackCount, timers, threw>>
            /\ IF destroyed
               THEN /\ periods' = Remove(periods, i)
                    /\ op' = [Op("pingDone", periods[i].target,
                                 "destroyed whilst pinging")
                                EXCEPT !.arg2 = "guarded"]
                    /\ UNCHANGED isPinging
               ELSE sendPingReq(i)
    /\ UNCHANGED <<damping, cluster, statsHooks, isStoppedAll, gossipStopped, joiner, lifecycle, relays>>

\* onComplete of sendPingReq with the verdicts accumulated by conjunction:
\* alive only when every helper reported the target reachable.
onComplete_allSuccess(p, m, err) ==
    LET anySuccess == (p.completed = 0 \/ p.anySuccess) /\ ~err
        completed == p.completed + 1
    IN [p |-> [p EXCEPT !.anySuccess = anySuccess, !.completed = completed],
        changes |-> IF completed = Cardinality(p.others)
                    THEN <<[address |-> p.target,
                            status |-> IF anySuccess THEN "alive" ELSE "suspect",
                            inc |-> m[p.target].inc]>>
                    ELSE <<>>,
        done |-> completed = Cardinality(p.others)]

\* onComplete(err) of sendPingReq in the closure p, the membership being m:
\* the closure it leaves, the changes it feeds to membership.update and
\* whether it called back.
onComplete(p, m, err) ==
    LET anySuccess == p.anySuccess \/ ~err
        completed == p.completed + 1
    IN [p |-> [p EXCEPT !.anySuccess = anySuccess, !.completed = completed],
        changes |-> IF completed = Cardinality(p.others)
                    THEN <<[address |-> p.target,
                            status |-> IF anySuccess THEN "alive" ELSE "suspect",
                            inc |-> m[p.target].inc]>>
                    ELSE <<>>,
        done |-> completed = Cardinality(p.others)]

\* The ping-req to helper of period i ends: its sender applies the changes
\* of a response, then calls onComplete, with an error when the request
\* failed or the helper reported the target unreachable.
PingReqDone(i, helper, err, changes) ==
    /\ ~threw
    /\ Idle
    /\ i \in 1..Len(periods)
    /\ periods[i].phase = "pingReq"
    /\ helper \in periods[i].waiting
    /\ LET r == MembershipUpdate(members, changes)
           h == Emitted(r, isStoppedAll)
           c == onComplete(periods[i], r.members, err)
           u == ThenUpdate(r.members, h, c.changes)
       IN /\ InRange(u.members)
          /\ Written([members |-> u.members, updates |-> r.updates \o u.updates],
                     u.h)
          /\ timers' = u.h.timers
          /\ IF c.done /\ ~h.threw
             THEN /\ periods' = Remove(periods, i)
                  /\ isPinging' = FALSE
             ELSE /\ periods' = [periods EXCEPT ![i] =
                                    [c.p EXCEPT !.waiting = @ \ {helper},
                                                !.reachable = IF err THEN @
                                                              ELSE @ \cup {helper}]]
                  /\ UNCHANGED isPinging
          /\ op' = [Op("pingReqDone", periods[i].target,
                       IF u.h.threw THEN "TypeError"
                       ELSE IF c.done THEN "done" ELSE "")
                      EXCEPT !.arg2 = IF err THEN "unreachable" ELSE "reachable",
                             !.change = IF c.done /\ ~h.threw
                                        THEN [status |-> c.changes[1].status,
                                              inc |-> c.changes[1].inc]
                                        ELSE NoMember]
    /\ UNCHANGED <<damping, cluster, statsHooks, isStoppedAll, gossipStopped, joiner, lifecycle, relays>>

\* protocolPing(options, callback): the changes of the ping are applied,
\* then the response's changes are taken from the dissemination buffer.
ProtocolPing(source, changes, same) ==
    /\ ~threw
    /\ Idle
    /\ LET r == MembershipUpdate(members, changes)
           h == Emitted(r, isStoppedAll)
           cap == adjustMaxPiggybackCount(r, h)
       IN /\ InRange(r.members)
          /\ \E S \in Batches(h.dissem, cap) :
               LET g == issueMembershipChanges(h.dissem, cap, same, S)
               IN /\ Written(r, IF h.threw THEN h ELSE [h EXCEPT !.dissem = g.dissem])
                  /\ op' = [Op("protocolPing", source, IF h.threw THEN "TypeError" ELSE "null")
                              EXCEPT !.body = IF h.threw THEN NoBody
                                              ELSE [NoBody EXCEPT !.changes = g.changes]]
          /\ timers' = h.timers
    /\ UNCHANGED <<damping, cluster, statsHooks, isStoppedAll, gossipStopped, joiner, lifecycle, detector>>

\* protocolPingReq(options, callback): the changes of the request are
\* applied and a ping to the target is sent, whatever the detector does.
ProtocolPingReq(target, changes) ==
    /\ ~threw
    /\ Idle
    /\ relays[target] < MaxRelays
    /\ LET r == MembershipUpdate(members, changes)
           h == Emitted(r, isStoppedAll)
       IN /\ InRange(r.members)
          /\ Written(r, h)
          /\ timers' = h.timers
          /\ relays' = IF h.threw THEN relays
                       ELSE [relays EXCEPT ![target] = @ + 1]
          /\ op' = [Op("protocolPingReq", target, IF h.threw THEN "TypeError" ELSE "")
                      EXCEPT !.sent = IF h.threw THEN {} ELSE {"ping"}]
    /\ UNCHANGED <<damping, cluster, statsHooks, isStoppedAll, gossipStopped, joiner, lifecycle, isPinging, periods>>

\* The variant that takes the response's changes from the buffer before
\* the changes of the ping are applied.
pingReqResponse_changesFirst(isOk, changes, same) ==
    LET r == MembershipUpdate(members, IF isOk THEN changes ELSE <<>>)
        h == Emitted(r, isStoppedAll)
    IN {LET g == issueMembershipChanges(dissem, maxPiggybackCount, same, S)
        IN [r |-> r,
            h |-> IF h.threw THEN h
                  ELSE [h EXCEPT !.dissem = [a \in Addrs |->
                                   IF h.dissem[a] # dissem[a] THEN h.dissem[a]
                                   ELSE g.dissem[a]]],
            changes |-> g.changes] : S \in Batches(dissem, maxPiggybackCount)}

\* The callback protocolPingReq gives sendPing: the changes of a ping that
\* succeeded are applied, then the response's changes are taken from the
\* dissemination buffer.  The outcomes differ in the batch getChanges picks.
pingReqResponse(isOk, changes, same) ==
    LET r == MembershipUpdate(members, IF isOk THEN changes ELSE <<>>)
        h == Emitted(r, isStoppedAll)
        cap == adjustMaxPiggybackCount(r, h)
    IN {LET g == issueMembershipChanges(h.dissem, cap, same, S)
        IN [r |-> r,
            h |-> IF h.threw THEN h ELSE [h EXCEPT !.dissem = g.dissem],
            changes |-> g.changes] : S \in Batches(h.dissem, cap)}

\* The ping sent for a ping-req ends: the response tells the requester
\* whether the target answered.  same tells whether the checksum of the
\* ping-req equals the local one; arg2 of the operation records it.
RelayPingDone(target, isOk, changes, same) ==
    /\ ~threw
    /\ Idle
    /\ relays[target] > 0
    /\ isOk \/ changes = <<>>
    /\ \E o \in pingReqResponse(isOk, changes, same) :
          /\ InRange(o.r.members)
          /\ Written(o.r, o.h)
          /\ timers' = o.h.timers
          /\ op' = [Op("relayPingDone", target,
                       IF o.h.threw THEN "TypeError"
                       ELSE IF isOk THEN "pingStatus: true" ELSE "pingStatus: false")
                      EXCEPT !.arg2 = IF same THEN "same" ELSE "differs",
                             !.body = IF o.h.threw THEN NoBody
                                      ELSE [NoBody EXCEPT !.changes = o.changes]]
    /\ relays' = [relays EXCEPT ![target] = @ - 1]
    /\ UNCHANGED <<damping, cluster, statsHooks, isStoppedAll, gossipStopped, joiner, lifecycle, isPinging, periods>>

(***************************************************************************)
(* Routing: lookup, handleOrProxy, handleOrProxyAll.                       *)
(***************************************************************************)
whoami == Local

\* lookup without the fallback to whoami().
lookup_noFallback(r, k) == RingLookup(r, k)

\* lookup(key)
lookup(r, k) ==
    LET dest == RingLookup(r, k) IN
    IF dest = NoDest THEN whoami ELSE dest

Lookup(k) ==
    /\ ~threw
    /\ Idle
    /\ op' = Op("lookup", k, lookup(ring, k))
    /\ events' = NoEvents
    /\ UNCHANGED <<damping, cluster, statsHooks, members, ring, dissem, maxPiggybackCount, timers, isStoppedAll, gossipStopped, joiner,
                   threw, lifecycle, detector>>

PROXY_REQ_PROPS == {"keys", "dest", "req", "res"}

\* validateProps(opts, props): every property is there.  given tells, for
\* each property of opts, whether its value is truthy.
validateProps(given, props) == \A p \in props : given[p]

\* The options handleOrProxy and handleOrProxyAll build for proxyReq: the
\* keys (an array), the owner (an address), and the request and response
\* objects of the call being routed.
ProxyOpts(dest) ==
    [keys |-> TRUE, dest |-> dest # "", req |-> TRUE, res |-> TRUE]

\* proxyReq(opts): the requests handed to requestProxy.proxyReq, or the
\* property-required error.
proxyReq(dest, keys) ==
    IF validateProps(ProxyOpts(dest), PROXY_REQ_PROPS)
    THEN [threw |-> FALSE, sent |-> <<[dest |-> dest, keys |-> keys]>>]
    ELSE [threw |-> TRUE, sent |-> <<>>]

\* handleOrProxy(key, req, res, opts): what it returns and what it hands to
\* the request proxy.  The branch that proxies has no return statement.
handleOrProxy(r, k) ==
    LET dest == lookup(r, k) IN
    IF whoami = dest
    THEN [ret |-> "true", proxied |-> <<>>]
    ELSE LET x == proxyReq(dest, <<k>>) IN
         IF x.threw THEN [ret |-> "throw property-required", proxied |-> <<>>]
         ELSE [ret |-> "undefined", proxied |-> x.sent]

HandleOrProxy(k) ==
    /\ ~threw
    /\ hpa.waiting = {}
    /\ hpa' = NoCall
    /\ LET x == handleOrProxy(ring, k) IN
       /\ op' = Op("handleOrProxy", k, x.ret)
       /\ proxied' = x.proxied
    /\ events' = NoEvents
    /\ UNCHANGED <<damping, cluster, statsHooks, members, ring, dissem, maxPiggybackCount, timers, isStoppedAll, gossipStopped, joiner,
                   threw, lifecycle, detector>>

\* _.groupBy(keys, this.lookup, this) and Object.keys of it: the keys of each
\* owner in input order, the owners in order of first occurrence.
RECURSIVE SelectSeq2(_, _, _)
SelectSeq2(keys, r, d) ==
    IF keys = <<>> THEN <<>>
    ELSE (IF lookup(r, Head(keys)) = d THEN <<Head(keys)>> ELSE <<>>)
         \o SelectSeq2(Tail(keys), r, d)

groupBy(keys, r) == [d \in Addrs |-> SelectSeq2(keys, r, d)]

\* The owners without grouping: one destination per key.
RECURSIVE ownersOf_perKey(_, _, _)
ownersOf_perKey(keys, r, seen) ==
    IF keys = <<>> THEN <<>>
    ELSE <<lookup(r, Head(keys))>> \o ownersOf_perKey(Tail(keys), r, seen)

RECURSIVE ownersOf(_, _, _)
ownersOf(keys, r, seen) ==
    IF keys = <<>> THEN <<>>
    ELSE LET d == lookup(r, Head(keys)) IN
         IF d \in seen THEN ownersOf(Tail(keys), r, seen)
         ELSE <<d>> \o ownersOf(Tail(keys), r, seen \cup {d})

\* dests.forEach(...) of handleOrProxyAll: c is the closure, sent the
\* requests handed to the proxy so far; a proxyReq that throws ends the loop.
RECURSIVE dispatch(_, _, _, _)
dispatch(c, sent, dests, keys) ==
    IF dests = <<>> THEN [c |-> c, sent |-> sent, ret |-> "undefined"]
    ELSE LET dest == Head(dests) IN
         IF whoami = dest
         THEN dispatch([c EXCEPT !.localCalls = @ + 1, !.waiting = @ \cup {dest}],
                       sent, Tail(dests), keys)
         ELSE LET x == proxyReq(dest, keys) IN
              IF x.threw
              THEN [c |-> c, sent |-> sent, ret |-> "throw property-required"]
              ELSE dispatch([c EXCEPT !.waiting = @ \cup {dest}],
                            sent \o x.sent, Tail(dests), keys)

\* handleOrProxyAll(opts, cb)
handleOrProxyAll(r, keys, cbGiven) ==
    LET keysByDest == groupBy(keys, r)
        dests == ownersOf(keys, r, {})
        c == [NoCall EXCEPT !.keys = keys, !.keysByDest = keysByDest,
                            !.dests = dests, !.pending = Len(dests),
                            !.cb = cbGiven, !.cbGiven = cbGiven]
    IN IF Len(dests) = 0 /\ cbGiven
       THEN [c |-> [c EXCEPT !.cbCalls = <<[err |-> FALSE, responses |-> <<>>]>>],
             sent |-> <<>>, ret |-> "undefined"]
       ELSE dispatch(c, <<>>, dests, keys)

KeyLists == UNION {[1..n -> Keys] : n \in 0..MaxKeys}

HandleOrProxyAll(keys, cbGiven) ==
    /\ ~threw
    /\ hpa.waiting = {}
    /\ LET x == handleOrProxyAll(ring, keys, cbGiven) IN
       /\ hpa' = x.c
       /\ proxied' = x.sent
       /\ op' = Op("handleOrProxyAll", IF cbGiven THEN "cb" ELSE "", x.ret)
    /\ events' = NoEvents
    /\ UNCHANGED <<damping, cluster, statsHooks, members, ring, dissem, maxPiggybackCount, timers, isStoppedAll, gossipStopped, joiner,
                   threw, lifecycle, detector>>

\* onResponse that keeps cb after calling it.
onResponse_keepsCb(c, err, dest) ==
    LET responses == Append(c.responses,
                            [dest |-> dest, keys |-> c.keysByDest[dest], err |-> err])
        fire == (c.pending - 1 = 0 \/ err) /\ c.cb
    IN [c EXCEPT !.responses = responses,
                 !.pending = @ - 1,
                 !.waiting = @ \ {dest},
                 !.cbCalls = IF fire THEN Append(@, [err |-> err, responses |-> responses])
                             ELSE @]

\* onResponse(err, response, dest) of handleOrProxyAll
onResponse(c, err, dest) ==
    LET responses == Append(c.responses,
                            [dest |-> dest, keys |-> c.keysByDest[dest], err |-> err])
        fire == (c.pending - 1 = 0 \/ err) /\ c.cb
    IN [c EXCEPT !.responses = responses,
                 !.pending = @ - 1,
                 !.waiting = @ \ {dest},
                 !.cbCalls = IF fire THEN Append(@, [err |-> err, responses |-> responses])
                             ELSE @,
                 !.cb = IF fire THEN FALSE ELSE @]

\* The response of an owner (the local handler or the proxied request)
\* arrives, with or without an error.
OnResponse(dest, err) ==
    /\ ~threw
    /\ dest \in hpa.waiting
    /\ hpa' = onResponse(hpa, err, dest)
    /\ op' = Op("onResponse", dest, "")
    /\ events' = NoEvents
    /\ UNCHANGED <<damping, cluster, statsHooks, members, ring, dissem, maxPiggybackCount, timers, isStoppedAll, gossipStopped, joiner,
                   threw, proxied, lifecycle, detector>>

(***************************************************************************)
(* Stats hooks.                                                            *)
(***************************************************************************)
\* The arguments of registerStatsHook: nothing, or an object that may lack
\* a name or a getStats function.
Hooks == [given : BOOLEAN, name : HookNames \cup {""},
          getStats : {"function", "undefined"}, id : HookIds]

\* this.statsHooks[name]: the own property, or else what the object
\* inherits under that name.
statsHookAt(hooks, name) ==
    IF hooks[name] # "undefined" THEN hooks[name]
    ELSE IF name \in InheritedNames THEN "inherited"
    ELSE "undefined"

\* isStatsHookRegistered(name)
isStatsHookRegistered(hooks, name) == statsHookAt(hooks, name) # "undefined"

registerStatsHook_overwrites(hooks, hook) ==
    IF ~hook.given
    THEN [err |-> "ringpop.argument-required", hooks |-> hooks]
    ELSE IF hook.name = ""
    THEN [err |-> "ringpop.field-required", hooks |-> hooks]
    ELSE IF hook.getStats # "function"
    THEN [err |-> "ringpop.method-required", hooks |-> hooks]
    ELSE [err |-> "null", hooks |-> [hooks EXCEPT ![hook.name] = hook.id]]

\* registerStatsHook(hook): what it throws ("null": nothing) and the
\* registry it leaves.
registerStatsHook(hooks, hook) ==
    IF ~hook.given
    THEN [err |-> "ringpop.argument-required", hooks |-> hooks]
    ELSE IF hook.name = ""
    THEN [err |-> "ringpop.field-required", hooks |-> hooks]
    ELSE IF hook.getStats # "function"
    THEN [err |-> "ringpop.method-required", hooks |-> hooks]
    ELSE IF isStatsHookRegistered(hooks, hook.name)
    THEN [err |-> "ringpop.duplicate-hook", hooks |-> hooks]
    ELSE [err |-> "null", hooks |-> [hooks EXCEPT ![hook.name] = hook.id]]

RegisterStatsHook(hook) ==
    /\ ~threw
    /\ Idle
    /\ LET r == registerStatsHook(statsHooks, hook)
       IN /\ statsHooks' = r.hooks
          /\ op' = [Op("registerStatsHook", IF hook.given THEN hook.name ELSE "", r.err)
                      EXCEPT !.arg2 = IF hook.given THEN hook.id ELSE ""]
    /\ events' = NoEvents
    /\ UNCHANGED <<damping, cluster, members, ring, dissem, maxPiggybackCount, timers, isStoppedAll,
                   gossipStopped, joiner, threw, lifecycle, detector>>

IsStatsHookRegistered(name) ==
    /\ ~threw
    /\ Idle
    /\ op' = Op("isStatsHookRegistered", name,
                IF isStatsHookRegistered(statsHooks, name) THEN "true" ELSE "false")
    /\ events' = NoEvents
    /\ UNCHANGED <<damping, cluster, members, ring, dissem, maxPiggybackCount, timers, isStoppedAll,
                   gossipStopped, joiner, threw, lifecycle, detector, statsHooks>>


(***************************************************************************)
(* A cluster: nodes that run the protocol against each other.              *)
(***************************************************************************)
\* What reaches a node from outside the cluster about the subject: its own
\* leave, or the verdict of the node's failure detector.
ObservedChanges ==
    {c \in Changes : c.address = Subject /\ c.status \in {"faulty", "leave"}}

\* membership.update(changes) at a node of the cluster, with the listener
\* of index.js and the cap of the dissemination.  The changes are about the
\* subject, so that no node meets a change about itself.
nodeUpdate(node, changes) ==
    LET r == MembershipUpdate(node.members, changes)
        h0 == [ring |-> node.ring, dissem |-> node.dissem, timers |-> {},
               isStoppedAll |-> FALSE, ringChanged |-> 0, changed |-> 0,
               threw |-> FALSE]
        h == IF Len(r.updates) > 0 THEN onMembershipUpdated(h0, r.updates, TRUE) ELSE h0
    IN [members |-> r.members, ring |-> h.ring, dissem |-> h.dissem,
        maxPiggybackCount |->
            IF \E k \in 1..Len(r.updates) : r.updates[k].type = "new"
            THEN computeMaxPiggybackCount(r.members)
            ELSE node.maxPiggybackCount]

\* The changes of buffer d for the addresses S, as a message carries them.
RECURSIVE changesOf(_, _)
changesOf(d, S) ==
    IF S = {} THEN <<>>
    ELSE LET a == CHOOSE x \in S : TRUE
         IN <<[address |-> a, status |-> d[a].status, inc |-> d[a].inc]>>
               \o changesOf(d, S \ {a})

\* A change reaches node n from outside the cluster.
Observe(n, c) ==
    /\ cluster.observed < MaxObserved
    /\ cluster' = [cluster EXCEPT !.nodes[n] = nodeUpdate(@, <<c>>),
                                  !.observed = @ + 1]
    /\ UNCHANGED <<damping, members, ring, dissem, maxPiggybackCount, timers, isStoppedAll,
                   gossipStopped, joiner, threw, events, op, proxied, hpa,
                   lifecycle, detector, statsHooks>>

\* A protocol period of node i whose ping reaches node j and is answered:
\* the ping carries changes of i's buffer and i's checksum, j applies them
\* and answers with changes of its buffer (protocolPing), i applies those.
\* The outcomes differ in the batches the two getChanges pick.
gossip(c, i, j) ==
    LET ni == c.nodes[i]
        nj == c.nodes[j]
    IN UNION {
         LET g1 == issueMembershipChanges(ni.dissem, ni.maxPiggybackCount, FALSE, S1)
             nj1 == nodeUpdate(nj, changesOf(ni.dissem, g1.changes))
             same == computeChecksum(nj1.members) = computeChecksum(ni.members)
         IN {LET g2 == issueMembershipChanges(nj1.dissem, nj1.maxPiggybackCount,
                                              same, S2)
                 ni1 == nodeUpdate([ni EXCEPT !.dissem = g1.dissem],
                                   changesOf(nj1.dissem, g2.changes))
             IN [c EXCEPT !.nodes[i] = ni1,
                          !.nodes[j] = [nj1 EXCEPT !.dissem = g2.dissem]]
               : S2 \in Batches(nj1.dissem, nj1.maxPiggybackCount)}
           : S1 \in Batches(ni.dissem, ni.maxPiggybackCount)}

Gossip(i, j) ==
    /\ i # j
    /\ cluster.nodes[i].members[j].status \in {"alive", "suspect"}
    /\ cluster' \in gossip(cluster, i, j)
    /\ UNCHANGED <<damping, members, ring, dissem, maxPiggybackCount, timers, isStoppedAll,
                   gossipStopped, joiner, threw, events, op, proxied, hpa,
                   lifecycle, detector, statsHooks>>


(***************************************************************************)
(* Flap damping (lib/flap-damping/subprotocol.js): initiateSubprotocol,    *)
(* sendDampReq and the handler of its result.                              *)
(***************************************************************************)
\* The sendDampReq calls with sends outstanding that the model follows at once.
MaxDamps == 1

\* dampReqFanoutSize of the configuration is in 1..MaxFanout, dampReqValue
\* not larger than it.
MaxFanout == 2

\* The dampScore of a response is in 0..MaxScore, the suppressLimit of the
\* configuration is MaxScore.
MaxScore == 1

\* What onSend is called with: an error, a body that is no JSON, or a body
\* with a dampScore.
DampOutcomes ==
    {[kind |-> "err", dampScore |-> 0], [kind |-> "nojson", dampScore |-> 0]}
        \cup {[kind |-> "result", dampScore |-> s] : s \in 0..MaxScore}

\* calledBack = true; callback(null, isConfirmed)
dampReqCallback(c, isConfirmed) ==
    [c EXCEPT !.calledBack = TRUE,
              !.reported = Append(@, [err |-> FALSE, isConfirmed |-> isConfirmed])]

\* onComplete of sendDampReq that does not test calledBack.
onCompleteDampReq_noGuard(c) ==
    LET numCompleted == Cardinality(c.errors) + Cardinality(c.results)
        numConfirmed == Cardinality({r \in c.results : r.dampScore >= c.suppressLimit})
    IN IF numConfirmed >= c.dampReqValue THEN dampReqCallback(c, TRUE)
       ELSE IF numCompleted >= Cardinality(c.dampReqMembers)
       THEN dampReqCallback(c, FALSE)
       ELSE IF c.dampReqValue - numConfirmed
                   > Cardinality(c.dampReqMembers) - numCompleted
       THEN dampReqCallback(c, FALSE)
       ELSE c

\* onComplete() of sendDampReq
onCompleteDampReq(c) ==
    IF c.calledBack THEN c
    ELSE LET numCompleted == Cardinality(c.errors) + Cardinality(c.results)
             numConfirmed == Cardinality({r \in c.results :
                                             r.dampScore >= c.suppressLimit})
         IN IF numConfirmed >= c.dampReqValue THEN dampReqCallback(c, TRUE)
            ELSE IF numCompleted >= Cardinality(c.dampReqMembers)
            THEN dampReqCallback(c, FALSE)
            ELSE IF c.dampReqValue - numConfirmed
                        > Cardinality(c.dampReqMembers) - numCompleted
            THEN dampReqCallback(c, FALSE)
            ELSE c

\* onSend(err, head, body) of the send to dampReqMember
onSend(c, dampReqMember, out) ==
    LET d == IF out.kind # "result"
             THEN [c EXCEPT !.errors = @ \cup {dampReqMember}]
             ELSE [c EXCEPT !.results = @ \cup {[dampReqMember |-> dampReqMember,
                                                 dampScore |-> out.dampScore]}]
    IN onCompleteDampReq([d EXCEPT !.waiting = @ \ {dampReqMember}])

\* membership.makeDamped(address, incarnationNumber): the member object
\* gives its incarnation number of the moment.
makeDamped(m, address) ==
    MembershipUpdate(m, <<[address |-> address, status |-> "damped",
                           inc |-> m[address].inc]>>)

\* onDampReq(err, isConfirmed): what it leaves of dampPending.
onDampReq(pending, member, err) ==
    IF err THEN pending ELSE pending \ {member}

\* initiateSubprotocol that does not test dampPending.
initiateSubprotocol_noPendingCheck(pending, m, flappyMember) ==
    IF m[flappyMember].status = "damped" THEN "damped" ELSE "start"

\* initiateSubprotocol(opts) up to its sendDampReq call: what it does for
\* flappyMember.
initiateSubprotocol(pending, m, flappyMember) ==
    IF flappyMember \in pending THEN "pending"
    ELSE IF m[flappyMember].status = "damped" THEN "damped"
    ELSE "start"

\* The closures other than the i-th that still have a send outstanding: a
\* closure whose sends have all called back is never entered again.
RECURSIVE Outstanding(_, _)
Outstanding(q, i) ==
    IF q = <<>> THEN <<>>
    ELSE (IF i # 1 /\ Head(q).waiting # {} THEN <<Head(q)>> ELSE <<>>)
         \o Outstanding(Tail(q), i - 1)

\* initiateSubprotocol(opts) for a member of the membership.  Without a
\* selectable damp-req member sendDampReq calls back with an error on the
\* next tick, and the handler returns on it.  MaxDamps bounds the runs with
\* a send outstanding that are of other members or have reported; the runs
\* of flappyMember that have not reported are bounded by the code alone.
InitiateSubprotocol(flappyMember, dampReqFanoutSize, dampReqValue, suppressLimit) ==
    /\ ~threw
    /\ Idle
    /\ members[flappyMember].status # "none"
    /\ LET todo == initiateSubprotocol(dampPending, members, flappyMember) IN
       IF todo # "start"
       THEN /\ op' = Op("initiateSubprotocol", flappyMember, todo)
            /\ UNCHANGED damping
       ELSE /\ Len(SelectSeq(Outstanding(damps, 0),
                              LAMBDA c : c.member # flappyMember \/ c.calledBack))
                 < MaxDamps
            /\ \E dampReqMembers \in getRandomPingableMembers(members, dampReqFanoutSize,
                                                              {flappyMember}) :
                 LET c == DampReq(flappyMember, dampReqValue, suppressLimit, dampReqMembers)
                 IN IF dampReqMembers = {}
                    THEN /\ damps' = Append(Outstanding(damps, 0),
                                [c EXCEPT !.reported = <<[err |-> TRUE, isConfirmed |-> FALSE]>>])
                         /\ dampPending' = onDampReq(dampPending \cup {flappyMember},
                                                     flappyMember, TRUE)
                         /\ op' = Op("initiateSubprotocol", flappyMember,
                                     "No selectable damp-req members")
                    ELSE /\ damps' = Append(Outstanding(damps, 0), c)
                         /\ dampPending' = dampPending \cup {flappyMember}
                         /\ op' = [Op("initiateSubprotocol", flappyMember, "")
                                     EXCEPT !.sent = {"damp-req"}]
    /\ events' = NoEvents
    /\ UNCHANGED <<cluster, statsHooks, members, ring, dissem, maxPiggybackCount, timers, isStoppedAll,
                   gossipStopped, joiner, threw, lifecycle, detector>>

\* The send of run i to dampReqMember calls back: onSend, and when
\* onComplete reports, the handler of initiateSubprotocol.
DampReqDone(i, dampReqMember, out) ==
    /\ ~threw
    /\ Idle
    /\ i \in 1..Len(damps)
    /\ dampReqMember \in damps[i].waiting
    /\ LET c == onSend(damps[i], dampReqMember, out)
           fired == Len(c.reported) > Len(damps[i].reported)
           isConfirmed == fired /\ c.reported[Len(c.reported)].isConfirmed
           r == IF isConfirmed THEN makeDamped(members, c.member)
                ELSE [members |-> members, updates |-> <<>>]
           h == Emitted(r, isStoppedAll)
       IN /\ Written(r, h)
          /\ timers' = h.timers
          /\ damps' = Append(Outstanding(damps, i), c)
          /\ dampPending' = IF fired THEN onDampReq(dampPending, c.member, FALSE)
                            ELSE dampPending
          /\ op' = [Op("onSend", c.member,
                       IF ~fired THEN ""
                       ELSE IF isConfirmed THEN "confirmed" ELSE "unconfirmed")
                      EXCEPT !.arg2 = dampReqMember, !.damp = damps[i]]
    /\ UNCHANGED <<cluster, statsHooks, isStoppedAll, gossipStopped, joiner, lifecycle, detector>>

\* The membership changes that move servers in and out of the ring while
\* requests are routed.
\* The servers whose changes the routing and lifecycle specifications
\* exchange.
RouteAddrs == {Local, "127.0.0.1:3001", "127.0.0.1:3002"}

RouteChanges == {c \in Changes : /\ c.address \in RouteAddrs
                                 /\ c.status = "alive" /\ c.inc = 1}

Next ==
    \/ \E c \in MemberChanges : Update(c)
    \/ \E i \in Incs : AddLocalMember(i)
    \/ AdminLeave
    \/ \E now \in Incs : AdminJoin(now)
    \/ \E a \in Addrs : SuspicionTimeout(a)

Spec == Init /\ [][Next]_vars

\* A node that serves the join requests of its peers.
NextJoin ==
    \/ \E c \in MemberChanges : Update(c)
    \/ \E i \in Incs : AddLocalMember(i)
    \/ \E a \in MemberAddrs, app \in Apps, i \in Incs : ProtocolJoin(a, app, i)

SpecJoin == Init /\ [][NextJoin]_vars

NextRoute ==
    \/ \E c \in RouteChanges : Update(c)
    \/ \E k \in Keys : Lookup(k)
    \/ \E k \in Keys : HandleOrProxy(k)
    \/ \E keys \in KeyLists, cb \in BOOLEAN : HandleOrProxyAll(keys, cb)
    \/ \E d \in Addrs, e \in BOOLEAN : OnResponse(d, e)

SpecRoute == Init /\ [][NextRoute]_vars

\* The lifecycle of a node: bootstrap, its join, admin leave and join,
\* destroy, while changes about the peers arrive.
NextBoot ==
    \/ \E seed \in SeedLists, now \in Incs : Bootstrap(seed, now)
    \/ \E err \in BOOLEAN, changes \in JoinChanges : JoinDone(err, changes)
    \/ Destroy
    \/ AdminLeave
    \/ \E now \in Incs : AdminJoin(now)
    \/ \E c \in RouteChanges : Update(c)

SpecBoot == Init /\ [][NextBoot]_vars

\* The membership of a node as changes reach it and suspicion timers
\* expire.
NextMember ==
    \/ \E c \in MemberChanges : Update(c)
    \/ \E i \in Incs : AddLocalMember(i)
    \/ \E a \in Addrs : SuspicionTimeout(a)

SpecMember == Init /\ [][NextMember]_vars

\* The cluster: changes arrive from outside for a while, and every node
\* keeps pinging every peer it takes for pingable, one protocol period
\* after the other.
NextCluster ==
    \/ \E n \in ClusterNodes, c \in ObservedChanges : Observe(n, c)
    \/ \E i \in ClusterNodes, j \in ClusterNodes : Gossip(i, j)

SpecCluster ==
    /\ Init
    /\ [][NextCluster]_vars
    /\ \A i \in ClusterNodes, j \in ClusterNodes : WF_vars(Gossip(i, j))

\* The registry of stats hooks of a node.
NextStats ==
    \/ \E hook \in Hooks : RegisterStatsHook(hook)
    \/ \E name \in HookNames : IsStatsHookRegistered(name)

SpecStats == Init /\ [][NextStats]_vars

\* The peers whose pings are answered.
PingSources == {"127.0.0.1:3001"}

\* What their pings carry: nothing, or one change that tells of a member
\* alive or suspect.
DissemBodies ==
    {<<>>} \cup {<<c>> : c \in {x \in MemberChanges : x.status \in {"alive", "suspect"}}}

\* The dissemination buffer of a node that learns of changes and answers
\* pings.
NextDissem ==
    \/ \E i \in Incs : AddLocalMember(i)
    \/ \E a \in PingSources, changes \in DissemBodies, same \in BOOLEAN :
          ProtocolPing(a, changes, same)

SpecDissem == Init /\ [][NextDissem]_vars

\* The seed list of the node whose detector is studied.
PingSeeds == {[isArray |-> TRUE, hosts |-> <<"127.0.0.1:3001">>]}

\* The peers inbound ping-reqs name as their target.
RelayTargets == {"127.0.0.1:3001"}

\* The failure detector of a node that bootstraps, then pings its peers and
\* serves ping-reqs, and may be destroyed.  The ping-reqs it serves carry
\* the checksum the node has, so that their responses carry no changes.
NextPing ==
    \/ \E seed \in PingSeeds : Bootstrap(seed, MaxInc)
    \/ \E err \in BOOLEAN, changes \in JoinChanges : JoinDone(err, changes)
    \/ Destroy
    \/ \E c \in PingChanges : Update(c)
    \/ \E t \in Remotes : PingMemberNow(t)
    \/ \E i \in 1..Len(periods), ok \in BOOLEAN, changes \in PingBodies :
          PingDone(i, ok, changes)
    \/ \E i \in 1..Len(periods), a \in Remotes, err \in BOOLEAN,
          changes \in PingBodies : PingReqDone(i, a, err, changes)
    \/ \E t \in RelayTargets, changes \in PingBodies : ProtocolPingReq(t, changes)
    \/ \E t \in RelayTargets, ok \in BOOLEAN, changes \in PingBodies :
          RelayPingDone(t, ok, changes, TRUE)

SpecPing == Init /\ [][NextPing]_vars

\* A node that serves ping-reqs: their checksum may differ from the local
\* one, and then the response carries changes.
NextRelay ==
    \/ \E i \in Incs : AddLocalMember(i)
    \/ \E c \in PingChanges : Update(c)
    \/ \E t \in RelayTargets, changes \in PingBodies : ProtocolPingReq(t, changes)
    \/ \E t \in RelayTargets, ok \in BOOLEAN, changes \in PingBodies, same \in BOOLEAN :
          RelayPingDone(t, ok, changes, same)

SpecRelay == Init /\ [][NextRelay]_vars

\* A node that receives its membership changes in batches.
MaxBatch == 2

\* The changes of a batch: a peer reported alive, suspect or faulty, the
\* peer reported alive again at the next incarnation number, and the local
\* node reported suspect.
BatchChanges ==
    {c \in Changes :
        \/ /\ c.address = "127.0.0.1:3001"
           /\ c.status \in {"alive", "suspect", "faulty"}
           /\ c.inc = MaxInc - 1
        \/ c.address = "127.0.0.1:3001" /\ c.status = "alive" /\ c.inc = MaxInc
        \/ c.address = Local /\ c.status = "suspect" /\ c.inc = MaxInc - 1}

UpdateBatches == UNION {[1..n -> BatchChanges] : n \in 0..MaxBatch}

NextBatch ==
    \/ \E i \in Incs : AddLocalMember(i)
    \/ \E changes \in UpdateBatches : UpdateBatch(changes)

SpecBatch == Init /\ [][NextBatch]_vars

\* A node that checks its host list.
NextKin ==
    \E hostPort \in KinHosts, hosts \in KinHostLists :
        CheckForHostnameIpMismatch(hostPort, hosts)

SpecKin == Init /\ [][NextKin]_vars

\* The callbacks of the outbound pings and ping-reqs of the detector.
PingCallbacks ==
    \/ \E i \in 1..Len(periods), ok \in BOOLEAN, changes \in PingBodies :
          PingDone(i, ok, changes)
    \/ \E i \in 1..Len(periods), a \in Remotes, err \in BOOLEAN,
          changes \in PingBodies : PingReqDone(i, a, err, changes)

\* The protocol periods of a node: every ping and ping-req that is sent
\* calls back at some time.
NextPeriod ==
    \/ \E seed \in PingSeeds : Bootstrap(seed, MaxInc)
    \/ \E err \in BOOLEAN, changes \in JoinChanges : JoinDone(err, changes)
    \/ Destroy
    \/ \E t \in Remotes : PingMemberNow(t)
    \/ PingCallbacks

SpecPeriod == Init /\ [][NextPeriod]_vars /\ WF_vars(PingCallbacks)

\* A node that runs the damping subprotocol for its flappy members.
FlappyMembers == {"127.0.0.1:3001", "127.0.0.1:3002"}

DampChanges == {c \in Changes : /\ c.address \in Remotes
                                /\ c.status = "alive"
                                /\ c.inc = 1}

NextDamp ==
    \/ AddLocalMember(MaxInc)
    \/ \E c \in DampChanges : Update(c)
    \/ \E m \in FlappyMembers, f \in 1..MaxFanout :
          \E v \in 1..f : InitiateSubprotocol(m, f, v, MaxScore)
    \/ \E i \in 1..Len(damps), m \in Remotes, out \in DampOutcomes :
          DampReqDone(i, m, out)

SpecDamp == Init /\ [][NextDamp]_vars

(***************************************************************************)
(* Properties.                                                             *)
(***************************************************************************)
AliveSet(m) == {a \in Addrs : m[a].status = "alive"}

Moved(a) == members'[a] # members[a]

IsRingOwner(r, k, a) ==
    /\ a \in r
    /\ \E p \in ReplicaPoints(a) :
          \/ p >= KeyHash(k) /\ \A q \in RingPoints(r) : q >= KeyHash(k) => p <= q
          \/ /\ \A q \in RingPoints(r) : q < KeyHash(k)
             /\ \A q \in RingPoints(r) : p <= q

\* C2: lookup(key) returns whoami() when the ring holds no servers, and the
\* address the ring yields for the key when it holds some; it raises no
\* error in either case.
C2_Lookup ==
    op.kind = "lookup" =>
        /\ ring = {} => op.ret = whoami
        /\ ring # {} => IsRingOwner(ring, op.arg, op.ret)

C2_Witness == op.kind = "lookup" /\ ring = {} /\ op.ret = Local

\* C3 (as stated): handleOrProxy returns true and sends no proxy request when
\* lookup(key) is whoami(); otherwise it hands exactly one request for the
\* owner to the request proxy and returns false.
C3_HandleOrProxy ==
    op.kind = "handleOrProxy" =>
        IF lookup(ring, op.arg) = whoami
        THEN op.ret = "true" /\ proxied = <<>>
        ELSE /\ Len(proxied) = 1
             /\ proxied[1].dest = lookup(ring, op.arg)
             /\ op.ret = "false"

Owners(r, keys) == {lookup(r, keys[i]) : i \in 1..Len(keys)}

KeysOf(r, keys, d) == SelectSeq(keys, LAMBDA k : lookup(r, k) = d)

Dests(reqs) == {reqs[i].dest : i \in 1..Len(reqs)}

\* C4: handleOrProxyAll groups the keys by their lookup owner, calls the
\* local handler exactly once if and only if some key is owned by the local
\* node, sends exactly one proxy request per distinct remote owner, and when
\* every owner has responded without error delivers exactly one response
\* record per owner to the callback.
C4_HandleOrProxyAll ==
    op.kind \in {"handleOrProxyAll", "onResponse"} =>
        LET owners == Owners(ring, hpa.keys) IN
        /\ \A d \in Addrs : hpa.keysByDest[d] = KeysOf(ring, hpa.keys, d)
        /\ hpa.localCalls = (IF whoami \in owners THEN 1 ELSE 0)
        /\ Len(proxied) = Cardinality(owners \ {whoami})
        /\ Dests(proxied) = owners \ {whoami}
        /\ (/\ hpa.cbGiven
            /\ hpa.waiting = {}
            /\ \A i \in 1..Len(hpa.responses) : ~hpa.responses[i].err)
           => /\ Len(hpa.cbCalls) = 1
              /\ ~hpa.cbCalls[1].err
              /\ Len(hpa.cbCalls[1].responses) = Cardinality(owners)
              /\ Dests(hpa.cbCalls[1].responses) = owners
              /\ \A i \in 1..Len(hpa.cbCalls[1].responses) :
                    hpa.cbCalls[1].responses[i].keys
                        = KeysOf(ring, hpa.keys, hpa.cbCalls[1].responses[i].dest)

\* Two keys, one local and one remote: both owners have responded and the
\* callback has the two records.
C4_Witness ==
    /\ op.kind = "onResponse"
    /\ hpa.waiting = {}
    /\ hpa.localCalls = 1
    /\ Len(proxied) = 1
    /\ Len(hpa.cbCalls) = 1
    /\ ~hpa.cbCalls[1].err
    /\ Len(hpa.cbCalls[1].responses) = 2

C6_FirstSeenNotAlive ==
    [][\A a \in Addrs :
        (members[a].status = "none" /\ members'[a].status \notin {"none", "alive"})
        => a \notin ring']_vars

\* The local node is alive and its peer was just observed, for the first
\* time, as faulty.
C6_Witness ==
    /\ op.kind = "update" /\ op.arg2 = "first" /\ ~threw
    /\ members[Local].status = "alive"
    /\ members["127.0.0.1:3001"].status = "faulty"
    /\ "127.0.0.1:3001" \notin ring
    /\ events.changed = 1

\* C7: a join whose source is the local address is rejected with
\* invalid-join.source, one whose app is not the local app with
\* invalid-join.app; a rejected join leaves membership, ring and
\* dissemination buffer as they were.
C7_JoinRejected ==
    [][op'.kind = "protocolJoin" =>
        /\ op'.arg = Local => op'.ret = "invalid-join.source"
        /\ (op'.arg # Local /\ op'.arg2 # LocalApp) => op'.ret = "invalid-join.app"
        /\ op'.ret # "null" =>
              /\ members' = members
              /\ ring' = ring
              /\ dissem' = dissem
              /\ events' = NoEvents]_vars

\* A join of another app was rejected by a node that does not know the
\* joiner.
C7_Witness ==
    /\ op.kind = "protocolJoin"
    /\ op.ret = "invalid-join.app"
    /\ members[op.arg].status = "none"

\* C8 (as stated, for a node that is itself an alive member): after an
\* accepted join the joiner is alive in the local membership, whatever was
\* known about it, and the response carries the local app, the local
\* address as coordinator and a snapshot that lists the joiner as alive.
C8_JoinerAlive ==
    (op.kind = "protocolJoin" /\ op.ret = "null" /\ members[Local].status = "alive") =>
        /\ members[op.arg].status = "alive"
        /\ op.body.app = LocalApp
        /\ op.body.coordinator = Local
        /\ op.body.membership[op.arg].status = "alive"

\* C9: adminJoin on a node whose status is leave completes with 'rejoined',
\* leaves the local member alive, and at an incarnation number greater than
\* the one it left with; that number never decreases in between.
C9_Rejoin ==
    [][/\ hasLocalMember(members) => members'[Local].inc >= members[Local].inc
       /\ (op'.kind = "adminJoin" /\ members[Local].status = "leave")
          => /\ op'.ret = "rejoined"
             /\ members'[Local].status = "alive"
             /\ members'[Local].inc > members[Local].inc
             /\ ~threw']_vars

C9_Witness ==
    /\ op.kind = "adminJoin" /\ op.ret = "rejoined"
    /\ members[Local] = [status |-> "alive", inc |-> 2]
    /\ Local \in ring

\* C10: after a rejoin the gossip loop runs and the suspicion timers are
\* enabled; and while they are enabled, an update that moves a member to
\* suspect starts its timer.
C10_RejoinRestarts ==
    [][/\ (op'.kind = "adminJoin" /\ op'.ret = "rejoined")
          => ~gossipStopped' /\ ~isStoppedAll'
       /\ \A a \in Addrs :
            (/\ op'.kind = "update" /\ ~threw' /\ ~isStoppedAll
             /\ hasLocalMember(members)
             /\ Moved(a) /\ members'[a].status = "suspect")
            => a \in timers']_vars

\* A node that left and rejoined (gossip runs again) and then saw its peer
\* become suspect: the timer of the peer runs.
C10_Witness ==
    /\ op.kind = "update" /\ ~threw
    /\ ~gossipStopped /\ ~isStoppedAll
    /\ members[Local].status = "alive"
    /\ members["127.0.0.1:3001"].status = "suspect"
    /\ "127.0.0.1:3001" \in timers

\* C11 (as stated): a rejoin after leave runs Admin Join again: the rejoin
\* that adminJoin reports has sent join requests to the seeds.
C11_RejoinSendsJoin ==
    (op.kind = "adminJoin" /\ op.ret = "rejoined") => "join" \in op.sent

\* C12 (as stated): adminLeave on a node whose local member exists and is not
\* leave sets the local status to leave, stops gossip, stops every suspicion
\* timer, sends no message and reports 'ok'.
C12_AdminLeave ==
    [][(/\ op'.kind = "adminLeave"
        /\ hasLocalMember(members)
        /\ members[Local].status # "leave")
       => /\ members'[Local].status = "leave"
          /\ gossipStopped'
          /\ isStoppedAll' /\ timers' = {}
          /\ op'.sent = {}
          /\ op'.ret = "ok"]_vars

\* C13: adminLeave on a node whose local status is leave reports
\* invalid-leave.redundant and leaves membership, ring, dissemination, gossip
\* and suspicion as they were.
C13_RedundantLeave ==
    [][(op'.kind = "adminLeave" /\ members[Local].status = "leave")
       => /\ op'.ret = "invalid-leave.redundant"
          /\ op'.sent = {}
          /\ UNCHANGED <<members, ring, dissem, timers, isStoppedAll,
                         gossipStopped, joiner, joinCb>>]_vars

\* A second leave on a node that learned of its leave while gossip was
\* running: the error is reported and gossip still runs.
C13_Witness ==
    /\ op.kind = "adminLeave" /\ op.ret = "invalid-leave.redundant"
    /\ members[Local].status = "leave"
    /\ ~gossipStopped /\ ~isStoppedAll

\* C14: adminJoin and adminLeave on a node without a local member report
\* invalid-local-member and change nothing: no joiner, no join sent, gossip
\* and suspicion untouched.
C14_NoLocalMember ==
    [][(op'.kind \in {"adminJoin", "adminLeave"} /\ ~hasLocalMember(members))
       => /\ op'.ret = "invalid-local-member"
          /\ op'.sent = {}
          /\ UNCHANGED <<members, ring, dissem, timers, isStoppedAll,
                         gossipStopped, joiner, joinCb>>]_vars

\* adminJoin was refused on a node that knows a peer but not itself.
C14_Witness ==
    /\ op.kind = "adminJoin" /\ op.ret = "invalid-local-member"
    /\ members[Local].status = "none"
    /\ members["127.0.0.1:3001"].status = "alive"
    /\ joiner = "null"

\* C15: bootstrap on a node that is ready, or with a seed list that resolves
\* to nothing or to an empty list, reports an error, changes no membership,
\* sends no join, adds no local member and does not start gossip.
C15_BootstrapRefused ==
    [][(/\ op'.kind = "bootstrap"
        /\ \/ isReady
           \/ ~bootstrapHosts'.isArray
           \/ bootstrapHosts'.hosts = <<>>)
       => /\ op'.ret = (IF isReady THEN "AlreadyReadyError"
                        ELSE "BootstrapNoHostsError")
          /\ op'.sent = {}
          /\ UNCHANGED <<members, ring, dissem, gossipStopped, joiner, joinCb,
                         isReady>>]_vars

\* A bootstrap of a node that is ready was refused.
C15_Witness ==
    /\ op.kind = "bootstrap" /\ op.ret = "AlreadyReadyError"
    /\ isReady
    /\ members[Local].status = "alive"

\* A bootstrap with an empty seed list was refused: the node has no local
\* member.
C15_WitnessNoHosts ==
    /\ op.kind = "bootstrap" /\ op.ret = "BootstrapNoHostsError"
    /\ bootstrapHosts = [isArray |-> TRUE, hosts |-> <<>>]
    /\ members[Local].status = "none"

\* C16 (as stated): when the join of a bootstrap ends on a destroyed node,
\* with or without an error, the bootstrap reports
\* BootstrapDestroyedDuring, the node is not ready, ready is not emitted and
\* gossip is not started.
C16_DestroyedDuringBootstrap ==
    (op.kind = "joinDone" /\ op.arg = "bootstrap" /\ op.arg2 = "destroyed")
    => /\ op.ret = "BootstrapDestroyedDuringError"
       /\ ~isReady
       /\ events.ready = 0
       /\ gossipStopped

\* C17: at most one ping started by pingMemberNow is in flight; a
\* pingMemberNow call made while a ping or its ping-req fan-out is
\* outstanding starts nothing; an inbound ping-req is served with a ping of
\* its own whatever the detector does.
C17_OnePingInFlight ==
    /\ [](Len(periods) <= 1)
    /\ [][(op'.kind = "pingMemberNow" /\ Len(periods) > 0)
          => /\ periods' = periods
             /\ op'.sent = {}
             /\ UNCHANGED <<isPinging, relays>>]_vars
    /\ [](\A t \in RelayTargets :
            (~threw /\ relays[t] < MaxRelays) => ENABLED ProtocolPingReq(t, <<>>))
    /\ [][(op'.kind = "protocolPingReq" /\ ~threw')
          => /\ relays'[op'.arg] = relays[op'.arg] + 1
             /\ op'.sent = {"ping"}
             /\ UNCHANGED <<isPinging, periods>>]_vars

\* A pingMemberNow call was turned away while the fan-out of the period is
\* outstanding and a ping on behalf of an inbound ping-req is in flight.
C17_Witness ==
    /\ op.kind = "pingMemberNow" /\ op.ret = "in-progress"
    /\ Len(periods) = 1
    /\ periods[1].phase = "pingReq"
    /\ relays["127.0.0.1:3001"] > 0

\* C18 (as stated): when a period of a node that was not destroyed ends
\* after its ping failed and no ping-req reported the target reachable, the
\* target is suspect and its suspicion timer runs, whatever the number of
\* alive members.
C18_UnreachableIsSuspect ==
    [][(/\ op'.kind \in {"pingDone", "pingReqDone"}
        /\ Len(periods') < Len(periods)
        /\ op'.ret # "ok"
        /\ \A i \in 1..Len(periods) : periods[i].reachable = {}
        /\ op'.arg2 # "reachable"
        /\ ~destroyed /\ ~threw')
       => /\ members'[op'.arg].status = "suspect"
          /\ op'.arg \in timers']_vars

\* C19: when the fan-out of a period completes and at least one of its
\* ping-reqs reported the target reachable, in whatever order the responses
\* arrived, the detector proposes alive at the incarnation number the
\* target then has; a proposal of suspect means that none did.
C19_AnyReachableIsAlive ==
    [][\A i \in 1..Len(periods) :
        (/\ op'.kind = "pingReqDone" /\ op'.ret = "done"
         /\ Len(periods') < Len(periods)
         /\ periods[i].phase = "pingReq" /\ periods[i].target = op'.arg)
        => IF periods[i].reachable # {} \/ op'.arg2 = "reachable"
           THEN op'.change = [status |-> "alive", inc |-> members'[op'.arg].inc]
           ELSE op'.change = [status |-> "suspect", inc |-> members'[op'.arg].inc]]_vars

\* A fan-out to two helpers completed with a report of failure after the
\* other helper had reported the target reachable: alive was proposed.
C19_Witness ==
    /\ op.kind = "pingReqDone" /\ op.ret = "done"
    /\ op.arg2 = "unreachable"
    /\ op.change.status = "alive"
    /\ periods = <<>> /\ ~isPinging

\* C20: when the timer of a member that is still suspect fires, the member
\* becomes faulty at its incarnation number, leaves the ring, and changed is
\* emitted; until then the timer of a member that stays suspect keeps
\* running while the timers are enabled.
C20_SuspectBecomesFaulty ==
    [][\A a \in Addrs :
        /\ (/\ op'.kind = "suspicionTimeout" /\ op'.arg = a
            /\ members[a].status = "suspect")
           => /\ members'[a] = [status |-> "faulty", inc |-> members[a].inc]
              /\ a \notin ring'
              /\ a \notin timers'
              /\ events'.changed = 1
              /\ ~threw'
        /\ (/\ a \in timers
            /\ members[a].status = "suspect" /\ members'[a].status = "suspect"
            /\ ~isStoppedAll' /\ ~threw'
            /\ ~(op'.kind = "suspicionTimeout" /\ op'.arg = a))
           => a \in timers']_vars

\* The timer of a suspect server of the ring fired: the peer is faulty and
\* out of the ring.
C20_Witness ==
    /\ op.kind = "suspicionTimeout" /\ op.arg = "127.0.0.1:3001"
    /\ members["127.0.0.1:3001"].status = "faulty"
    /\ "127.0.0.1:3001" \notin ring
    /\ events = [changed |-> 1, ringChanged |-> 1, ready |-> 0, adjusted |-> 0]

\* C21 (as stated): every change that moves a member out of suspect, to
\* alive, faulty, leave or damped, cancels the member's suspicion timer; a
\* timer that fires for a member that is not suspect marks nobody faulty.
C21_LeavingSuspectCancelsTimer ==
    [][/\ \A a \in Addrs :
            (members[a].status = "suspect" /\ members'[a].status # "suspect")
            => a \notin timers'
       /\ (op'.kind = "suspicionTimeout" /\ members[op'.arg].status # "suspect")
          => members' = members]_vars

\* C22 (as stated): destroy leaves gossip stopped, no suspicion timer and no
\* active joiner; on a destroyed node gossip stays stopped, no timer runs,
\* no operation starts a ping or a ping-req, and a second destroy changes
\* nothing.
C22_DestroyIsFinal ==
    /\ [][op'.kind = "destroy"
          => destroyed' /\ gossipStopped' /\ timers' = {} /\ joiner' # "joining"]_vars
    /\ [](destroyed => gossipStopped /\ timers = {})
    /\ [][destroyed => op'.sent \cap {"ping", "ping-req"} = {}]_vars
    /\ [][(destroyed /\ op'.kind = "destroy")
          => UNCHANGED <<members, ring, dissem, timers, isStoppedAll,
                         gossipStopped, joiner, lifecycle, detector>>]_vars

\* The statuses of strictly higher precedence than s under
\* alive < suspect < faulty = leave = damped.
C23_Above(s) ==
    CASE s = "alive" -> {"suspect", "faulty", "leave", "damped"}
      [] s = "suspect" -> {"faulty", "leave", "damped"}
      [] OTHER -> {}

\* C23: an update with a change about a known member other than the local
\* one takes the change if and only if its incarnation number is greater,
\* or equal with a status of strictly higher precedence; a change that is
\* not taken leaves the members, the checksum, the ring and the
\* dissemination buffer as they were.
C23_Acceptance ==
    [][\A c \in MemberChanges :
        (/\ op'.kind = "update"
         /\ c.address # Local
         /\ members[c.address].status # "none"
         /\ Update(c))
        => LET L == members[c.address] IN
           IF \/ c.inc > L.inc
              \/ c.inc = L.inc /\ c.status \in C23_Above(L.status)
           THEN members' = [members EXCEPT ![c.address] =
                               [status |-> c.status, inc |-> c.inc]]
           ELSE /\ members' = members
                /\ computeChecksum(members') = computeChecksum(members)
                /\ ring' = ring
                /\ dissem' = dissem
                /\ events'.changed = 0]_vars

\* An update about a peer that is alive at the greatest incarnation number
\* was not taken: the node does not know itself, so the update was about
\* the peer.
C23_Witness ==
    /\ op.kind = "update" /\ op.arg2 = "known"
    /\ op.ret = "ok" /\ ~threw
    /\ events.changed = 0
    /\ members[Local].status = "none"
    /\ members["127.0.0.1:3001"] = [status |-> "alive", inc |-> MaxInc]
    /\ "127.0.0.1:3001" \in ring

\* C24: a suspect or faulty change about the local node with an incarnation
\* number k not less than the node's own is not taken: the node restates
\* itself alive with an incarnation number greater than k and than its own,
\* and the alive change is buffered for dissemination; the local
\* incarnation number never decreases.
C24_Refutation ==
    [][/\ \A c \in MemberChanges :
            (/\ op'.kind = "update"
             /\ c.address = Local
             /\ hasLocalMember(members)
             /\ c.status \in {"suspect", "faulty"}
             /\ c.inc >= members[Local].inc
             /\ Update(c))
            => /\ members'[Local].status = "alive"
               /\ members'[Local].inc > c.inc
               /\ members'[Local].inc > members[Local].inc
               /\ dissem'[Local] = [status |-> "alive",
                                    inc |-> members'[Local].inc,
                                    piggybackCount |-> 0]
               /\ Local \notin timers'
       /\ hasLocalMember(members)
          => members'[Local].inc >= members[Local].inc]_vars

\* The local node refuted a change: it is alive at a greater incarnation
\* number, with that restatement buffered.
C24_Witness ==
    /\ op.kind = "update" /\ op.arg2 = "refuted"
    /\ members[Local] = [status |-> "alive", inc |-> MaxInc]
    /\ dissem[Local] = [status |-> "alive", inc |-> MaxInc, piggybackCount |-> 0]
    /\ events.changed = 1

\* C30 (as stated): every change an update takes, whatever the type of the
\* update it produces, is put into the dissemination buffer with
\* piggybackCount 0 in place of the earlier entry of the address, so that
\* the entry of an address tells the member's status and incarnation number.
C30_AcceptedIsBuffered ==
    [][\A a \in Addrs :
        (/\ op'.kind = "update" /\ ~threw'
         /\ members'[a] # members[a])
        => dissem'[a] = [status |-> members'[a].status,
                         inc |-> members'[a].inc,
                         piggybackCount |-> 0]]_vars

\* C25: a buffered change is returned by getChanges at most
\* maxPiggybackCount times in total, and leaves the buffer once its
\* piggybackCount reaches maxPiggybackCount.  piggybackCount counts the
\* returns of an entry: the count of an entry that was returned and is still
\* buffered is below the cap; only a buffered entry is returned; every return adds one to the count of the
\* entry (zero when the entry was inserted by the same ping's changes) and
\* removes the entry when the sum reaches the cap; and nothing but a return
\* or the insertion of a newer change touches an entry.
C25_PiggybackBound ==
    /\ [](~threw => \A a \in Addrs :
            dissem[a].piggybackCount > 0 => dissem[a].piggybackCount < maxPiggybackCount)
    /\ [][~threw' => \A a \in Addrs :
            LET inserted == members'[a] # members[a]
                base == IF inserted THEN 0 ELSE dissem[a].piggybackCount
            IN IF op'.kind = "protocolPing" /\ a \in op'.body.changes
               THEN /\ inserted \/ dissem[a].status # "none"
                    /\ IF base + 1 < maxPiggybackCount'
                       THEN /\ dissem'[a].status # "none"
                            /\ dissem'[a].piggybackCount = base + 1
                       ELSE dissem'[a] = NoChange
               ELSE dissem'[a] = dissem[a] \/ dissem'[a].piggybackCount = 0]_vars

\* A ping was answered with a change that had been returned before, and
\* this return, which brought its piggybackCount to a cap of two or more,
\* removed it from the buffer.
C25_Witness ==
    /\ op.kind = "protocolPing"
    /\ op.ret = "null"
    /\ maxPiggybackCount >= 2
    /\ \E a \in op.body.changes : members[a].status # "none" /\ dissem[a] = NoChange

\* C28: maxPiggybackCountAdjusted fires exactly when a membership update
\* changes the member count so that the recomputed cap differs from the
\* current one, and never for an update that leaves the member count as it
\* was (stated of a node that knows itself, as the node of the tests does).
C28_AdjustedOnMemberCount ==
    [][hasLocalMember(members) /\ ~threw' =>
         (events'.adjusted = 1
            <=> /\ memberCount(members') # memberCount(members)
                /\ computeMaxPiggybackCount(members') # maxPiggybackCount)]_vars

C27_RegisterStatsHook ==
    /\ [][\A hook \in Hooks :
            (op'.kind = "registerStatsHook" /\ RegisterStatsHook(hook))
               => /\ ~hook.given => op'.ret = "ringpop.argument-required"
                  /\ (hook.given /\ hook.name = "")
                        => op'.ret = "ringpop.field-required"
                  /\ (hook.given /\ hook.name # "" /\ hook.getStats # "function")
                        => op'.ret = "ringpop.method-required"
                  /\ (/\ hook.given /\ hook.name # "" /\ hook.getStats = "function"
                      /\ statsHooks[hook.name] # "undefined")
                        => op'.ret = "ringpop.duplicate-hook"
                  /\ op'.ret \in {"null", "ringpop.argument-required",
                                  "ringpop.field-required", "ringpop.method-required",
                                  "ringpop.duplicate-hook"}
                  /\ op'.ret # "null" => statsHooks' = statsHooks
                  /\ op'.ret = "null"
                        => /\ statsHooks' = [statsHooks EXCEPT ![hook.name] = hook.id]
                           /\ isStatsHookRegistered(statsHooks', hook.name)]_vars
    /\ [][\A n \in HookNames :
            /\ statsHooks[n] # "undefined" => statsHooks'[n] = statsHooks[n]
            /\ (op'.kind = "isStatsHookRegistered" /\ op'.arg = n
                /\ statsHooks[n] # "undefined") => op'.ret = "true"]_vars

\* A second hook was offered under a name already taken: the registration
\* threw duplicate-hook and the first hook is still the one registered.
C27_Witness ==
    /\ op.kind = "registerStatsHook"
    /\ op.ret = "ringpop.duplicate-hook"
    /\ op.arg = "myhook"
    /\ op.arg2 = "h2"
    /\ statsHooks["myhook"] = "h1"

\* No protocol period changes any node of the cluster any more: whatever
\* batches are picked, every ping and its response leave both nodes as they
\* are.
C26_Quiet ==
    \A i \in ClusterNodes, j \in ClusterNodes :
       (i # j /\ cluster.nodes[i].members[j].status \in {"alive", "suspect"})
          => gossip(cluster, i, j) = {cluster}

\* C26: in a cluster whose nodes stay up and whose pings are delivered and
\* answered, once the changes from outside have stopped all nodes come to
\* hold the same membership list (equal checksums), and keep it.  Changes
\* from outside may stop in any state; where no protocol period changes a
\* node any more, the cluster stays as it is for ever, so that the nodes
\* must agree there already.
C26_Convergence ==
    C26_Quiet
       => \A i \in ClusterNodes, j \in ClusterNodes :
             computeChecksum(cluster.nodes[i].members)
                = computeChecksum(cluster.nodes[j].members)

\* The batch applied one change at a time, the listener running after each
\* change: s is [members, h].
RECURSIVE C31_OneByOne(_, _)
C31_OneByOne(s, changes) ==
    IF changes = <<>> THEN s
    ELSE LET r == MembershipUpdate(s.members, <<Head(changes)>>)
             g == IF Len(r.updates) > 0
                  THEN onMembershipUpdated(s.h, r.updates, hasLocalMember(r.members))
                  ELSE s.h
         IN C31_OneByOne([members |-> r.members, h |-> g], Tail(changes))

C32_PingSucceeds ==
    [][(op'.kind = "pingDone" /\ op'.ret = "ok") =>
        /\ members' = MembershipUpdate(members, op'.batch).members
        /\ Len(periods') = Len(periods) - 1
        /\ \A i \in 1..Len(periods') : periods'[i].phase # "pingReq"
        /\ op'.sent = {}
        /\ op'.change = NoMember
        /\ op'.arg2 = "released"
        /\ ~isPinging']_vars

\* A ping succeeded with a response that carried a change, the change was
\* applied and the detector is free again.
C32_Witness ==
    /\ op.kind = "pingDone" /\ op.ret = "ok"
    /\ Len(op.batch) = 1
    /\ members[op.batch[1].address] = [status |-> op.batch[1].status, inc |-> op.batch[1].inc]
    /\ events.changed = 1
    /\ ~isPinging /\ periods = <<>>

\* C33 (as stated): the kin check returns false exactly when some host of
\* the list is not of the kind (IP address or host name) of the local
\* address, and true when every host of the list is of the local kind.
C33_KinCheck ==
    op.kind = "checkForHostnameIpMismatch" =>
        (op.ret = "false" <=>
            \E i \in 1..Len(op.batch) :
                HOST_PORT_PATTERN(op.batch[i]) # HOST_PORT_PATTERN(op.arg))

\* C34 (as stated): the gossip loop does not run while the status of the
\* local member is leave.
C34_NoGossipOnLeave ==
    (~threw /\ members[Local].status = "leave") => gossipStopped

\* The operation called the callback of its period.
C35_CalledBack(o) ==
    \/ o.kind = "pingDone" /\ o.arg2 \in {"released", "guarded"}
    \/ o.kind = "pingReqDone" /\ o.ret = "done"

\* C35: on a node that is not destroyed, when every ping and ping-req calls
\* back, a period that set isPinging resets it; the step that ends the
\* period resets isPinging and calls the callback of the period, and no
\* other step of the period calls it, whether the ping succeeds, the
\* ping-reqs complete or there is no member to send a ping-req to.
C35_PeriodCompletes ==
    /\ isPinging ~> (~isPinging \/ destroyed \/ threw)
    /\ [][(op'.kind \in {"pingDone", "pingReqDone"} /\ ~destroyed /\ ~threw')
          => IF Len(periods') < Len(periods)
             THEN ~isPinging' /\ C35_CalledBack(op') /\ op'.arg2 # "guarded"
             ELSE isPinging' /\ ~C35_CalledBack(op') /\ periods' # periods]_vars
    /\ []((isPinging /\ ~destroyed /\ ~threw)
            => /\ Len(periods) = 1
               /\ periods[1].phase = "pingReq" => periods[1].waiting # {})

\* A period whose ping failed ended with the last answer of its ping-reqs
\* on a node that is not destroyed.
C35_Witness ==
    /\ op.kind = "pingReqDone" /\ op.ret = "done"
    /\ ~isPinging /\ periods = <<>>
    /\ ~destroyed /\ ~threw

\* The positions of the responses that carried an error.
C36_Errors(responses) == {i \in 1..Len(responses) : responses[i].err}

\* C36: a handleOrProxyAll call that was given a callback calls it at most
\* once: at once with an empty list when there are no keys, otherwise with
\* the first response that carries an error or with the response of the
\* last owner, the responses received so far being handed over; responses
\* that arrive afterwards call nothing.
C36_CallbackOnce ==
    (op.kind \in {"handleOrProxyAll", "onResponse"} /\ hpa.cbGiven) =>
        LET errors == C36_Errors(hpa.responses)
            first == CHOOSE i \in errors : \A j \in errors : i <= j
        IN /\ Len(hpa.cbCalls) <= 1
           /\ IF hpa.keys = <<>>
              THEN hpa.cbCalls = <<[err |-> FALSE, responses |-> <<>>]>>
              ELSE IF errors # {}
              THEN hpa.cbCalls = <<[err |-> TRUE,
                                    responses |-> SubSeq(hpa.responses, 1, first)]>>
              ELSE IF Len(hpa.responses) = Len(hpa.dests)
              THEN hpa.cbCalls = <<[err |-> FALSE, responses |-> hpa.responses]>>
              ELSE hpa.cbCalls = <<>>

\* Two owners: the first response carried an error and called the callback,
\* the second arrived afterwards and called nothing.
C36_Witness ==
    /\ op.kind = "onResponse"
    /\ hpa.cbGiven
    /\ Len(hpa.responses) = 2
    /\ hpa.responses[1].err
    /\ hpa.waiting = {}
    /\ Len(hpa.cbCalls) = 1
    /\ Len(hpa.cbCalls[1].responses) = 1

\* C37 (as stated): each proxy request of a handleOrProxyAll call carries
\* the keys whose lookup owner is its destination, the group the response
\* record of that owner reports, and no key of another owner.
C37_ProxiedKeys ==
    op.kind \in {"handleOrProxyAll", "onResponse"} =>
        \A i \in 1..Len(proxied) :
            /\ proxied[i].keys = hpa.keysByDest[proxied[i].dest]
            /\ \A j \in 1..Len(proxied[i].keys) :
                  lookup(ring, proxied[i].keys[j]) = proxied[i].dest

\* C38 (as stated, in the form a finite run refutes): a pending entry is
\* removed when its run reports, so every pending entry has a run that has
\* not reported and has a send outstanding whose callback can make it report.
C38_PendingIsRemoved ==
    \A a \in dampPending :
        \E i \in 1..Len(damps) :
            /\ damps[i].member = a
            /\ ~damps[i].calledBack
            /\ damps[i].waiting # {}

\* The responders of the closure that reported a dampScore at or above
\* suppressLimit.
C39_Confirmed(c) == {r \in c.results : r.dampScore >= c.suppressLimit}

\* C39: a damp-req fan-out reports at most once, and once when every send
\* has called back; it reports confirmed, and the member is made damped,
\* only with at least dampReqValue responders at or above suppressLimit; it
\* reports unconfirmed with the first callback after which the sends still
\* outstanding cannot bring the count to dampReqValue; a callback that comes
\* after the report changes neither the report, nor the membership, nor the
\* pending entries.
C39_ReportsOnce ==
    [][(op'.kind = "onSend" /\ ~threw') =>
        LET p == op'.damp
            c == damps'[Len(damps')]
            n == Cardinality(C39_Confirmed(c))
        IN /\ Len(c.reported) <= 1
           /\ c.waiting = {} => Len(c.reported) = 1
           /\ IF p.reported # <<>>
              THEN /\ c.reported = p.reported
                   /\ members' = members
                   /\ dampPending' = dampPending
              ELSE /\ (c.reported # <<>> /\ c.reported[1].isConfirmed)
                        <=> n >= c.dampReqValue
                   /\ (c.reported # <<>> /\ ~c.reported[1].isConfirmed)
                        <=> n + Cardinality(c.waiting) < c.dampReqValue
                   /\ members' # members
                        => /\ c.reported # <<>> /\ c.reported[1].isConfirmed
                           /\ members'[c.member].status = "damped"
                   /\ c.reported # <<>> => c.member \notin dampPending']_vars

\* A fan-out to two members reported confirmed with the first response and
\* made the member damped; the second response came afterwards.
C39_Witness ==
    /\ op.kind = "onSend"
    /\ op.damp.calledBack
    /\ damps[Len(damps)].reported = <<[err |-> FALSE, isConfirmed |-> TRUE]>>
    /\ Cardinality(damps[Len(damps)].dampReqMembers) = 2
    /\ damps[Len(damps)].waiting = {}
    /\ members[op.arg].status = "damped"

\* The runs for member a that have not reported and have a send outstanding.
C40_Pending(q, a) ==
    {i \in 1..Len(q) : q[i].member = a /\ ~q[i].calledBack /\ q[i].waiting # {}}

\* C40: at most one damping subprotocol is pending per member, its entry
\* in dampPending being set; initiateSubprotocol for a member that has a
\* pending entry or is damped sends no damp-req and starts nothing, and
\* for any other member sets the entry.
C40_OnePending ==
    /\ [](\A a \in Addrs :
            /\ Cardinality(C40_Pending(damps, a)) <= 1
            /\ C40_Pending(damps, a) # {} => a \in dampPending)
    /\ [][op'.kind = "initiateSubprotocol" =>
            IF op'.arg \in dampPending \/ members[op'.arg].status = "damped"
            THEN /\ op'.sent = {}
                 /\ UNCHANGED <<dampPending, damps>>
            ELSE /\ op'.arg \in dampPending'
                 /\ op'.ret = "" <=> op'.sent = {"damp-req"}]_vars

\* initiateSubprotocol was called for a member whose subprotocol is pending,
\* a damp-req being outstanding, and returned at once.
C40_Witness ==
    /\ op.kind = "initiateSubprotocol"
    /\ op.ret = "pending"
    /\ op.arg \in dampPending
    /\ C40_Pending(damps, op.arg) # {}

==========================================================================
